---- MODULE Spec2Model ----
(***************************************************************************)
(* Workbench state engine of workgrid-studio:                             *)
(*   - the split-pane layout tree with its tabs (src/src/lib/db.ts,       *)
(*     useLayoutStore), and                                               *)
(*   - the lazily populated schema cache (src/src/state/schemaStore.ts)   *)
(*     together with the explorer handlers that fill it                   *)
(*     (src/src/components/views/ExplorerTree.tsx), and                   *)
(*   - the Sash that resizes a split Node by dragging                     *)
(*     (src/unnamed/part_004, src/src/components/layout/EditorNode.tsx).  *)
(*                                                                         *)
(* Strings of the program are TLA+ strings; template literals are string  *)
(* concatenation.  A ratio r of the program is the integer 100 * r.       *)
(* crypto.randomUUID() is the next value of a counter, written in         *)
(* decimal.  null is the string Null, undefined meta is hasMeta = FALSE.  *)
(***************************************************************************)
EXTENDS Integers, Sequences, FiniteSets, TLC

VARIABLES
    editorTree,   \* LayoutState.editorTree
    nextUuid,     \* number of crypto.randomUUID() results handed out
    schema,       \* the SchemaState of useSchemaStore
    expanded,     \* ExplorerTree's `expanded` component state
    pending,      \* backend calls awaited by suspended async handlers
    last,         \* name of the latest call that changed a store
    sash,         \* the Sash of a Node: its refs, listeners and closure variables
    profiles      \* useProfilesStore: the connectionStatus of each profile

layoutVars == <<editorTree, nextUuid>>
cacheVars == <<schema, expanded, pending>>
vars == <<editorTree, nextUuid, schema, expanded, pending, last, sash, profiles>>

----------------------------------------------------------------------------
(* Bounds of the model *)

\* crypto.randomUUID() is called at most MaxUuid times
MaxUuid == 4

\* at most MaxPending async handlers are suspended at the same time
MaxPending == 2

----------------------------------------------------------------------------
(* Values *)

Null == "<null>"
Undefined == "undefined"
NoLeafArg == ""

RatioMin == 10
RatioMax == 90
SplitRatio == 50

Min(a, b) == IF a < b THEN a ELSE b
Max(a, b) == IF a > b THEN a ELSE b

\* the n-th result of crypto.randomUUID()
Uuid(n) == ToString(n)

StartsWith(s, p) == Len(s) >= Len(p) /\ SubSeq(s, 1, Len(p)) = p

NoMeta == [k \in {} |-> ""]

\* JavaScript objects used as maps: {}, {...m, [k]: v}, delete m[k]
EmptyMap == [k \in {} |-> ""]
Put(m, k, v) == [x \in DOMAIN m \cup {k} |-> IF x = k THEN v ELSE m[x]]
Del(m, k) == [x \in DOMAIN m \ {k} |-> m[x]]
Has(m, k) == k \in DOMAIN m

\* `${meta.x}`: a key that is absent reads as undefined
MetaStr(meta, k) == IF k \in DOMAIN meta THEN meta[k] ELSE Undefined

\* Array.find: the first of the elements that satisfy the test, as <<e>>, or
\* <<>>; hits is the array filtered by the test
Find(hits) == IF hits = <<>> THEN <<>> ELSE <<hits[1]>>

----------------------------------------------------------------------------
(* Views of the tree *)

\* the Leaves of the tree, left to right
RECURSIVE LeafSeq(_)
LeafSeq(tree) ==
    IF tree.type = "leaf" THEN <<tree>>
    ELSE LeafSeq(tree.a) \o LeafSeq(tree.b)

\* the Nodes of the tree, parents first
RECURSIVE NodeSeq(_)
NodeSeq(tree) ==
    IF tree.type = "leaf" THEN <<>>
    ELSE <<tree>> \o NodeSeq(tree.a) \o NodeSeq(tree.b)

Range(s) == {s[i] : i \in 1..Len(s)}
LeafIds(tree) == {l.id : l \in Range(LeafSeq(tree))}
NodeIds(tree) == {n.id : n \in Range(NodeSeq(tree))}
TabIdsOf(leaf) == {t.id : t \in Range(leaf.tabs)}
TabIds(tree) == UNION {TabIdsOf(l) : l \in Range(LeafSeq(tree))}
Leaves(tree) == Range(LeafSeq(tree))

----------------------------------------------------------------------------
(* Tree primitives *)

\* findFirstLeaf that descends via b
RECURSIVE findFirstLeaf_viaB(_)
findFirstLeaf_viaB(tree) ==
    IF tree.type = "leaf" THEN tree ELSE findFirstLeaf_viaB(tree.b)

RECURSIVE findFirstLeaf(_)
findFirstLeaf(tree) ==
    IF tree.type = "leaf" THEN tree ELSE findFirstLeaf(tree.a)

\* <<leaf>> or <<>> for null
RECURSIVE findLeafById(_, _)
findLeafById(tree, id) ==
    IF tree.type = "leaf"
    THEN IF tree.id = id THEN <<tree>> ELSE <<>>
    ELSE LET inA == findLeafById(tree.a, id)
         IN IF inA # <<>> THEN inA ELSE findLeafById(tree.b, id)

\* updateLeaf that applies the updater to every Leaf, whatever its id
RECURSIVE updateLeaf_everyLeaf(_, _, _)
updateLeaf_everyLeaf(tree, leafId, updater) ==
    IF tree.type = "leaf"
    THEN updater[tree]
    ELSE [tree EXCEPT !.a = updateLeaf_everyLeaf(tree.a, leafId, updater),
                      !.b = updateLeaf_everyLeaf(tree.b, leafId, updater)]

\* updater is a function from the Leaves of the tree to Leaves
RECURSIVE updateLeaf(_, _, _)
updateLeaf(tree, leafId, updater) ==
    IF tree.type = "leaf"
    THEN IF tree.id = leafId THEN updater[tree] ELSE tree
    ELSE [tree EXCEPT !.a = updateLeaf(tree.a, leafId, updater),
                      !.b = updateLeaf(tree.b, leafId, updater)]

\* replacer is a function from the Leaves of the tree to trees
RECURSIVE replaceNode(_, _, _)
replaceNode(tree, targetId, replacer) ==
    IF tree.id = targetId /\ tree.type = "leaf"
    THEN replacer[tree]
    ELSE IF tree.type = "node"
         THEN [tree EXCEPT !.a = replaceNode(tree.a, targetId, replacer),
                           !.b = replaceNode(tree.b, targetId, replacer)]
         ELSE tree

RECURSIVE updateNode(_, _, _)
updateNode(tree, targetId, newRatio) ==
    IF tree.id = targetId /\ tree.type = "node"
    THEN [tree EXCEPT !.ratio = newRatio]
    ELSE IF tree.type = "node"
         THEN [tree EXCEPT !.a = updateNode(tree.a, targetId, newRatio),
                           !.b = updateNode(tree.b, targetId, newRatio)]
         ELSE tree

\* mutant: a given meta replaces the Tab's meta instead of being merged into it
mergeTab_replaceMeta(t, updates) ==
    [t EXCEPT !.title = IF updates.hasTitle THEN updates.title ELSE @,
              !.hasMeta = IF updates.hasMeta THEN TRUE ELSE @,
              !.meta = IF updates.hasMeta THEN updates.meta ELSE @]

\* updates = [hasTitle, title, hasMeta, meta]
mergeTab(t, updates) ==
    [t EXCEPT !.title = IF updates.hasTitle THEN updates.title ELSE @,
              !.hasMeta = IF updates.hasMeta THEN TRUE ELSE @,
              !.meta = IF updates.hasMeta
                       THEN [k \in DOMAIN @ \cup DOMAIN updates.meta |->
                               IF k \in DOMAIN updates.meta
                               THEN updates.meta[k] ELSE @[k]]
                       ELSE @]

RECURSIVE updateTabInTree(_, _, _)
updateTabInTree(tree, tabId, updates) ==
    IF tree.type = "leaf"
    THEN IF \E i \in 1..Len(tree.tabs) : tree.tabs[i].id = tabId
         THEN [tree EXCEPT !.tabs =
                 [i \in 1..Len(tree.tabs) |->
                    IF tree.tabs[i].id = tabId
                    THEN mergeTab(tree.tabs[i], updates)
                    ELSE tree.tabs[i]]]
         ELSE tree
    ELSE [tree EXCEPT !.a = updateTabInTree(tree.a, tabId, updates),
                      !.b = updateTabInTree(tree.b, tabId, updates)]

LeafAt(tree, id) == findLeafById(tree, id)[1]

----------------------------------------------------------------------------
(* useLayoutStore operations, as functions from the tree to the new tree *)

\* `${meta.profileId}::${meta.database}`
dedupKey(meta) == MetaStr(meta, "profileId") \o "::" \o MetaStr(meta, "database")

\* mutant: the tab is always opened in the first Leaf
openTabTarget_first(tree, leafId) == <<findFirstLeaf(tree)>>

\* the Leaf openTab works on, as <<leaf>>, or <<>>
openTabTarget(tree, leafId) ==
    IF leafId # NoLeafArg
    THEN findLeafById(tree, leafId)
    ELSE <<findFirstLeaf(tree)>>

\* mutant: every type is deduplicated, by type and title
openTabExisting_byTitle(targetLeaf, tabData) ==
    LET Same(t) == t.type = tabData.type /\ t.title = tabData.title
    IN Find(SelectSeq(targetLeaf.tabs, Same))

\* the Tab openTab reuses, as <<tab>>, or <<>>
openTabExisting(targetLeaf, tabData) ==
    IF tabData.type = "database-view" /\ tabData.hasMeta
    THEN LET key == dedupKey(tabData.meta)
             Same(t) == /\ t.type = "database-view"
                        /\ t.hasMeta
                        /\ dedupKey(t.meta) = key
         IN Find(SelectSeq(targetLeaf.tabs, Same))
    ELSE <<>>

\* uuid is the result crypto.randomUUID() gives if it is called
openTab(tree, tabData, leafId, uuid) ==
    LET target == openTabTarget(tree, leafId)
    IN IF target = <<>> THEN tree
       ELSE
       LET targetLeaf == target[1]
           existing == openTabExisting(targetLeaf, tabData)
           newTab == [id |-> "tab-" \o uuid, title |-> tabData.title,
                      type |-> tabData.type, hasMeta |-> tabData.hasMeta,
                      meta |-> tabData.meta]
       IN IF existing # <<>>
          THEN updateLeaf(tree, targetLeaf.id,
                 [leaf \in Leaves(tree) |->
                    [leaf EXCEPT !.activeTabId = existing[1].id]])
          ELSE updateLeaf(tree, targetLeaf.id,
                 [leaf \in Leaves(tree) |->
                    [leaf EXCEPT !.tabs = Append(leaf.tabs, newTab),
                                 !.activeTabId = newTab.id]])

\* TRUE when openTab calls crypto.randomUUID()
openTabCreates(tree, tabData, leafId) ==
    LET target == openTabTarget(tree, leafId)
    IN target # <<>> /\ openTabExisting(target[1], tabData) = <<>>

\* mutant: the first remaining Tab becomes active instead of the last
closeTabLeaf_first(leaf, tabId) ==
    LET Keep(t) == t.id # tabId
        newTabs == SelectSeq(leaf.tabs, Keep)
        newActiveId == IF leaf.activeTabId = tabId
                       THEN IF Len(newTabs) > 0 THEN newTabs[1].id ELSE Null
                       ELSE leaf.activeTabId
    IN [leaf EXCEPT !.tabs = newTabs, !.activeTabId = newActiveId]

closeTabLeaf(leaf, tabId) ==
    LET Keep(t) == t.id # tabId
        newTabs == SelectSeq(leaf.tabs, Keep)
        newActiveId == IF leaf.activeTabId = tabId
                       THEN IF Len(newTabs) > 0
                            THEN newTabs[Len(newTabs)].id
                            ELSE Null
                       ELSE leaf.activeTabId
    IN [leaf EXCEPT !.tabs = newTabs, !.activeTabId = newActiveId]

closeTab(tree, tabId, leafId) ==
    updateLeaf(tree, leafId,
               [leaf \in Leaves(tree) |-> closeTabLeaf(leaf, tabId)])

\* mutant: the kept Tab does not become active
closeOtherTabsLeaf_keepActive(leaf, tabId) ==
    LET Is(t) == t.id = tabId
        tabToKeep == Find(SelectSeq(leaf.tabs, Is))
    IN IF tabToKeep = <<>> THEN leaf
       ELSE [leaf EXCEPT !.tabs = <<tabToKeep[1]>>]

closeOtherTabsLeaf(leaf, tabId) ==
    LET Is(t) == t.id = tabId
        tabToKeep == Find(SelectSeq(leaf.tabs, Is))
    IN IF tabToKeep = <<>> THEN leaf
       ELSE [leaf EXCEPT !.tabs = <<tabToKeep[1]>>,
                         !.activeTabId = tabToKeep[1].id]

closeOtherTabs(tree, tabId, leafId) ==
    updateLeaf(tree, leafId,
               [leaf \in Leaves(tree) |-> closeOtherTabsLeaf(leaf, tabId)])

\* Array.findIndex, 1-based; 0 when nothing matches
findIndex(tabs, tabId) ==
    IF \E i \in 1..Len(tabs) : tabs[i].id = tabId
    THEN CHOOSE i \in 1..Len(tabs) :
           /\ tabs[i].id = tabId
           /\ \A j \in 1..(i - 1) : tabs[j].id # tabId
    ELSE 0

\* mutant: the last Tab of the prefix always becomes active
closeTabsToRightLeaf_lastActive(leaf, tabId) ==
    LET tabIndex == findIndex(leaf.tabs, tabId)
        newTabs == SubSeq(leaf.tabs, 1, tabIndex)
    IN IF tabIndex = 0 THEN leaf
       ELSE [leaf EXCEPT !.tabs = newTabs,
                         !.activeTabId = newTabs[Len(newTabs)].id]

closeTabsToRightLeaf(leaf, tabId) ==
    LET tabIndex == findIndex(leaf.tabs, tabId)
        newTabs == SubSeq(leaf.tabs, 1, tabIndex)
        newActiveId == IF \E i \in 1..Len(newTabs) :
                              newTabs[i].id = leaf.activeTabId
                       THEN leaf.activeTabId
                       ELSE newTabs[Len(newTabs)].id
    IN IF tabIndex = 0 THEN leaf
       ELSE [leaf EXCEPT !.tabs = newTabs, !.activeTabId = newActiveId]

closeTabsToRight(tree, tabId, leafId) ==
    updateLeaf(tree, leafId,
               [leaf \in Leaves(tree) |-> closeTabsToRightLeaf(leaf, tabId)])

\* mutant: the tabs are emptied but activeTabId is kept
closeAllTabs_keepActive(tree, leafId) ==
    updateLeaf(tree, leafId,
               [leaf \in Leaves(tree) |-> [leaf EXCEPT !.tabs = <<>>]])

\* mutant: a leafId that names no Leaf falls back to the first Leaf
closeAllTabs_orFirst(tree, leafId) ==
    updateLeaf(tree,
               IF findLeafById(tree, leafId) = <<>>
               THEN findFirstLeaf(tree).id ELSE leafId,
               [leaf \in Leaves(tree) |->
                  [leaf EXCEPT !.tabs = <<>>, !.activeTabId = Null]])

closeAllTabs(tree, leafId) ==
    updateLeaf(tree, leafId,
               [leaf \in Leaves(tree) |->
                  [leaf EXCEPT !.tabs = <<>>, !.activeTabId = Null]])

\* mutant: the id is accepted only if a Tab of the Leaf has it
setActiveTab_checked(tree, tabId, leafId) ==
    updateLeaf(tree, leafId,
               [leaf \in Leaves(tree) |->
                  IF tabId \in TabIdsOf(leaf)
                  THEN [leaf EXCEPT !.activeTabId = tabId] ELSE leaf])

setActiveTab(tree, tabId, leafId) ==
    updateLeaf(tree, leafId,
               [leaf \in Leaves(tree) |-> [leaf EXCEPT !.activeTabId = tabId]])

updateTab(tree, tabId, updates) == updateTabInTree(tree, tabId, updates)

\* mutant: the new Leaf is a copy of the old one, id included
splitLeaf_sameId(tree, leafId, direction, uuidNode, uuidLeaf) ==
    replaceNode(tree, leafId,
                [oldLeaf \in Leaves(tree) |->
                   [type |-> "node", id |-> "node-" \o uuidNode,
                    direction |-> direction, ratio |-> SplitRatio,
                    a |-> oldLeaf,
                    b |-> [oldLeaf EXCEPT !.tabs = <<>>,
                                          !.activeTabId = Null]]])

\* mutant: the new Leaf gets a fresh id but keeps the old Leaf's tabs
splitLeaf_copyTabs(tree, leafId, direction, uuidNode, uuidLeaf) ==
    replaceNode(tree, leafId,
                [oldLeaf \in Leaves(tree) |->
                   [type |-> "node", id |-> "node-" \o uuidNode,
                    direction |-> direction, ratio |-> SplitRatio,
                    a |-> oldLeaf,
                    b |-> [oldLeaf EXCEPT !.id = "leaf-" \o uuidLeaf]]])

\* mutant: the new Leaf becomes child a and the old Leaf child b
splitLeaf_swapped(tree, leafId, direction, uuidNode, uuidLeaf) ==
    replaceNode(tree, leafId,
                [oldLeaf \in Leaves(tree) |->
                   [type |-> "node", id |-> "node-" \o uuidNode,
                    direction |-> direction, ratio |-> SplitRatio,
                    a |-> [type |-> "leaf", id |-> "leaf-" \o uuidLeaf,
                           tabs |-> <<>>, activeTabId |-> Null],
                    b |-> oldLeaf]])

\* uuidNode, uuidLeaf: the two crypto.randomUUID() results, in call order
splitLeaf(tree, leafId, direction, uuidNode, uuidLeaf) ==
    replaceNode(tree, leafId,
                [oldLeaf \in Leaves(tree) |->
                   [type |-> "node",
                    id |-> "node-" \o uuidNode,
                    direction |-> direction,
                    ratio |-> SplitRatio,
                    a |-> oldLeaf,
                    b |-> [type |-> "leaf",
                           id |-> "leaf-" \o uuidLeaf,
                           tabs |-> <<>>,
                           activeTabId |-> Null]]])

\* closeLeaf that takes the Leaf out: its parent Node gives way to the sibling
RECURSIVE closeLeaf_collapse(_, _)
closeLeaf_collapse(tree, leafId) ==
    IF tree.type = "leaf" THEN tree
    ELSE IF tree.a.type = "leaf" /\ tree.a.id = leafId THEN tree.b
    ELSE IF tree.b.type = "leaf" /\ tree.b.id = leafId THEN tree.a
    ELSE [tree EXCEPT !.a = closeLeaf_collapse(tree.a, leafId),
                      !.b = closeLeaf_collapse(tree.b, leafId)]

closeLeaf(tree, leafId) == tree

resizeNode(tree, nodeId, newRatio) == updateNode(tree, nodeId, newRatio)

----------------------------------------------------------------------------
(* The Sash of a Node (src/unnamed/part_004) and the onDrag that EditorNode *)
(* hands to it.  Coordinates and extents are pixels.                        *)

\* the Node of the tree with this id
NodeAt(tree, nodeId) ==
    CHOOSE n \in Range(NodeSeq(tree)) : n.id = nodeId

\* a Sash nobody has pressed: isDragging.current is false, no window listeners.
\* listening, lastX, lastY are the listeners and variables of the closure of
\* one handlePointerDown call; listening2, last2X, last2Y those of a second call
\* made while the first closure's listeners are registered; pointers are the
\* pointers that are down.
SashIdle ==
    [isDragging |-> FALSE, captured |-> FALSE, listening |-> FALSE,
     node |-> Null, direction |-> Null, lastX |-> 0, lastY |-> 0,
     pressed |-> FALSE, downX |-> 0, downY |-> 0, curX |-> 0, curY |-> 0,
     reported |-> 0, invoked |-> FALSE,
     listening2 |-> FALSE, last2X |-> 0, last2Y |-> 0, pointers |-> {}]

\* pointer-down on the Sash of Node nodeId, rendered with this direction prop
handlePointerDown(s, nodeId, direction, clientX, clientY) ==
    [s EXCEPT !.captured = TRUE,
              !.isDragging = TRUE,
              !.node = nodeId,
              !.direction = direction,
              !.lastX = clientX,
              !.lastY = clientY,
              !.listening = TRUE]

\* the guard of the window's pointermove listener
moveRuns(s) == s.listening /\ s.isDragging

\* the delta that onPointerMove passes to onDrag
moveDelta(s, clientX, clientY) ==
    LET dx == clientX - s.lastX
        dy == clientY - s.lastY
    IN IF s.direction = "vertical" THEN dx ELSE dy

\* onPointerMove that never advances lastX and lastY: deltas against the start
onPointerMove_fromStart(s, clientX, clientY) == s

onPointerMove(s, clientX, clientY) ==
    IF ~s.isDragging THEN s
    ELSE [s EXCEPT !.lastX = clientX, !.lastY = clientY]

\* onPointerUp without the two removeEventListener calls
onPointerUp_keepListeners(s) ==
    [s EXCEPT !.isDragging = FALSE, !.captured = FALSE]

\* the closure with lastX and lastY is unreachable once its listeners are gone
onPointerUp(s) ==
    [s EXCEPT !.isDragging = FALSE,
              !.captured = FALSE,
              !.listening = FALSE,
              !.node = Null,
              !.direction = Null,
              !.lastX = 0,
              !.lastY = 0]

\* a pointer-down on the same Sash while the listeners of an earlier
\* pointer-down are registered: a second closure with its own lastX, lastY
handlePointerDownAgain(s, clientX, clientY) ==
    [s EXCEPT !.captured = TRUE,
              !.isDragging = TRUE,
              !.last2X = clientX,
              !.last2Y = clientY,
              !.listening2 = TRUE]

\* the delta that the second closure's onPointerMove passes to onDrag
moveDelta2(s, clientX, clientY) ==
    LET dx == clientX - s.last2X
        dy == clientY - s.last2Y
    IN IF s.direction = "vertical" THEN dx ELSE dy

\* window dispatches a pointermove to every registered onPointerMove
dispatchPointerMove(s, clientX, clientY) ==
    IF ~s.isDragging THEN s
    ELSE [s EXCEPT !.lastX = IF s.listening THEN clientX ELSE @,
                   !.lastY = IF s.listening THEN clientY ELSE @,
                   !.last2X = IF s.listening2 THEN clientX ELSE @,
                   !.last2Y = IF s.listening2 THEN clientY ELSE @]

\* the number of onDrag calls one pointermove event leads to
moveCalls(s) ==
    (IF s.listening /\ s.isDragging THEN 1 ELSE 0)
      + (IF s.listening2 /\ s.isDragging THEN 1 ELSE 0)

\* window dispatches a pointerup to every registered onPointerUp; each sets
\* isDragging.current = false, releases the capture and removes its own pair
dispatchPointerUp(s) ==
    IF s.listening \/ s.listening2
    THEN [onPointerUp(s) EXCEPT !.listening2 = FALSE, !.last2X = 0, !.last2Y = 0]
    ELSE s

\* the extent EditorNode measures for a Node of this direction
totalSize(direction, container) ==
    IF direction = "vertical" THEN container.clientHeight
    ELSE container.clientWidth

\* onDrag that takes a zero extent for one pixel instead of returning
onDrag_minExtent(tree, nodeId, delta, container) ==
    LET node == NodeAt(tree, nodeId)
        size == Max(totalSize(node.direction, container), 1)
    IN IF ~container.found THEN tree
       ELSE LET ratioChange == (delta * 100) \div size
                newRatio == Min(Max(node.ratio + ratioChange, RatioMin), RatioMax)
            IN resizeNode(tree, nodeId, newRatio)

\* onDrag that forwards the sum without Math.min and Math.max
onDrag_unclamped(tree, nodeId, delta, container) ==
    LET node == NodeAt(tree, nodeId)
        size == totalSize(node.direction, container)
    IN IF ~container.found THEN tree
       ELSE IF size = 0 THEN tree
       ELSE resizeNode(tree, nodeId, node.ratio + (delta * 100) \div size)

\* EditorNode's onDrag for the Node nodeId; container is what getElementById
\* returns.  The inputs make delta / totalSize a whole number of hundredths.
onDrag(tree, nodeId, delta, container) ==
    LET node == NodeAt(tree, nodeId)
        size == totalSize(node.direction, container)
    IN IF ~container.found THEN tree
       ELSE IF size = 0 THEN tree
       ELSE LET ratioChange == (delta * 100) \div size
                newRatio == Min(Max(node.ratio + ratioChange, RatioMin), RatioMax)
            IN resizeNode(tree, nodeId, newRatio)

----------------------------------------------------------------------------
(* Initial state: both stores as created *)

Init ==
    /\ editorTree = [type |-> "leaf", id |-> "root-editor",
                     tabs |-> <<>>, activeTabId |-> Null]
    /\ nextUuid = 0
    /\ schema = [connectedProfiles |-> EmptyMap,
                 databases |-> EmptyMap,
                 tables |-> EmptyMap,
                 columns |-> EmptyMap,
                 loadingDatabases |-> EmptyMap,
                 loadingTables |-> EmptyMap,
                 loadingColumns |-> EmptyMap,
                 errors |-> EmptyMap]
    /\ expanded = EmptyMap
    /\ pending = {}
    /\ last = "init"
    /\ sash = SashIdle
    /\ profiles = [c \in {"p1"} |-> "disconnected"]

----------------------------------------------------------------------------
(* Arguments the callers pass to the layout operations *)

DbMeta(db) == [profileId |-> "p1", profileName |-> "P", database |-> db]

\* the tabData of the openTab call sites
TabInputs ==
    { [title |-> "New Query", type |-> "sql", hasMeta |-> FALSE, meta |-> NoMeta],
      [title |-> "Database: a", type |-> "database-view", hasMeta |-> TRUE,
       meta |-> DbMeta("a")],
      [title |-> "Database: b", type |-> "database-view", hasMeta |-> TRUE,
       meta |-> DbMeta("b")] }

\* the updates of DatabaseView.handleSelectDatabase
UpdateInputs ==
    { [hasTitle |-> TRUE, title |-> "Database: " \o db,
       hasMeta |-> TRUE, meta |-> DbMeta(db)] : db \in {"a"} }

Directions == {"horizontal", "vertical"}

\* ratios times 100: below the range, inside it, above it
RatioInputs == {5, 50, 95}

\* ids of Leaves, of Nodes, and one id that names nothing
LeafArgs == LeafIds(editorTree) \cup NodeIds(editorTree) \cup {"leaf-x"}
NodeArgs == NodeIds(editorTree) \cup LeafIds(editorTree) \cup {"node-x"}
TabArgs == TabIds(editorTree) \cup {"tab-x"}

\* DatabaseView passes its own tab's id; "tab-x" is the id of a closed tab
ViewTabArgs ==
    {t.id : t \in {t \in UNION {Range(l.tabs) : l \in Leaves(editorTree)} :
                      t.type = "database-view"}} \cup {"tab-x"}

----------------------------------------------------------------------------
(* Layout actions: one per useLayoutStore operation *)

\* `last` names the latest call that changed the store
Effect(op) == IF editorTree' # editorTree THEN op ELSE last

OpenTab ==
    \E tabData \in TabInputs, leafId \in LeafArgs \cup {NoLeafArg} :
        /\ openTabCreates(editorTree, tabData, leafId) => nextUuid < MaxUuid
        /\ editorTree' = openTab(editorTree, tabData, leafId, Uuid(nextUuid + 1))
        /\ nextUuid' = IF openTabCreates(editorTree, tabData, leafId)
                       THEN nextUuid + 1 ELSE nextUuid
        /\ last' = Effect("openTab")
        /\ UNCHANGED <<cacheVars, sash, profiles>>

CloseTab ==
    \E tabId \in TabArgs, leafId \in LeafArgs :
        /\ editorTree' = closeTab(editorTree, tabId, leafId)
        /\ last' = Effect("closeTab")
        /\ UNCHANGED <<nextUuid, cacheVars, sash, profiles>>

CloseOtherTabs ==
    \E tabId \in TabArgs, leafId \in LeafArgs :
        /\ editorTree' = closeOtherTabs(editorTree, tabId, leafId)
        /\ last' = Effect("closeOtherTabs")
        /\ UNCHANGED <<nextUuid, cacheVars, sash, profiles>>

CloseTabsToRight ==
    \E tabId \in TabArgs, leafId \in LeafArgs :
        /\ editorTree' = closeTabsToRight(editorTree, tabId, leafId)
        /\ last' = Effect("closeTabsToRight")
        /\ UNCHANGED <<nextUuid, cacheVars, sash, profiles>>

CloseAllTabs ==
    \E leafId \in LeafArgs :
        /\ editorTree' = closeAllTabs(editorTree, leafId)
        /\ last' = Effect("closeAllTabs")
        /\ UNCHANGED <<nextUuid, cacheVars, sash, profiles>>

\* the tab bar passes a tab of the Leaf; "tab-x" stands for every other id
SetActiveTab ==
    \E tabId \in TabArgs, leafId \in LeafArgs :
        /\ leafId \in LeafIds(editorTree) =>
               tabId \in TabIdsOf(LeafAt(editorTree, leafId)) \cup {"tab-x"}
        /\ editorTree' = setActiveTab(editorTree, tabId, leafId)
        /\ last' = Effect("setActiveTab")
        /\ UNCHANGED <<nextUuid, cacheVars, sash, profiles>>

UpdateTab ==
    \E tabId \in ViewTabArgs, updates \in UpdateInputs :
        /\ editorTree' = updateTab(editorTree, tabId, updates)
        /\ last' = Effect("updateTab")
        /\ UNCHANGED <<nextUuid, cacheVars, sash, profiles>>

SplitLeaf ==
    \E leafId \in LeafArgs, direction \in Directions :
        /\ leafId \in LeafIds(editorTree) => nextUuid + 2 <= MaxUuid
        /\ editorTree' = splitLeaf(editorTree, leafId, direction,
                                   Uuid(nextUuid + 1), Uuid(nextUuid + 2))
        /\ nextUuid' = IF leafId \in LeafIds(editorTree)
                       THEN nextUuid + 2 ELSE nextUuid
        /\ last' = Effect("splitLeaf")
        /\ UNCHANGED <<cacheVars, sash, profiles>>

CloseLeaf ==
    \E leafId \in LeafArgs :
        /\ editorTree' = closeLeaf(editorTree, leafId)
        /\ last' = Effect("closeLeaf")
        /\ UNCHANGED <<nextUuid, cacheVars, sash, profiles>>

ResizeNode ==
    \E nodeId \in NodeArgs, newRatio \in RatioInputs :
        /\ editorTree' = resizeNode(editorTree, nodeId, newRatio)
        /\ last' = Effect("resizeNode")
        /\ UNCHANGED <<nextUuid, cacheVars, sash, profiles>>

NextLayout ==
    \/ OpenTab
    \/ CloseTab
    \/ CloseOtherTabs
    \/ CloseTabsToRight
    \/ CloseAllTabs
    \/ SetActiveTab
    \/ UpdateTab
    \/ SplitLeaf
    \/ CloseLeaf
    \/ ResizeNode

SpecLayout == Init /\ [][NextLayout]_vars

----------------------------------------------------------------------------
(* Properties of the layout tree *)

Nodes(tree) == Range(NodeSeq(tree))

\* the tab ids of the whole tree, Leaf by Leaf, in list order
RECURSIVE TabIdSeq(_)
TabIdSeq(leaves) ==
    IF leaves = <<>> THEN <<>>
    ELSE [i \in 1..Len(Head(leaves).tabs) |-> Head(leaves).tabs[i].id]
         \o TabIdSeq(Tail(leaves))

\* every Node has two children, every path ends in a Leaf
RECURSIVE IsBinaryTree(_)
IsBinaryTree(tree) ==
    \/ /\ tree.type = "leaf"
       /\ DOMAIN tree = {"type", "id", "tabs", "activeTabId"}
    \/ /\ tree.type = "node"
       /\ DOMAIN tree = {"type", "id", "direction", "ratio", "a", "b"}
       /\ IsBinaryTree(tree.a)
       /\ IsBinaryTree(tree.b)

\* profileId and database of a meta, each present or absent
Identity(meta) == [k \in {"profileId", "database"} \cap DOMAIN meta |-> meta[k]]

\* the Tabs of a Leaf that are database views of the identity of meta
ViewsOf(leaf, meta) ==
    {i \in 1..Len(leaf.tabs) :
        /\ leaf.tabs[i].type = "database-view"
        /\ leaf.tabs[i].hasMeta
        /\ Identity(leaf.tabs[i].meta) = Identity(meta)}

\* C1: every Node of the tree has 0.1 <= ratio <= 0.9, whatever ratios
\* resizeNode was called with.
C1_RatioInRange ==
    \A n \in Nodes(editorTree) : RatioMin <= n.ratio /\ n.ratio <= RatioMax

\* C2: each Leaf's activeTabId is none or the id of a Tab in that Leaf's tabs.
C2_ActiveTabInLeaf ==
    \A l \in Leaves(editorTree) :
        l.activeTabId = Null \/ l.activeTabId \in TabIdsOf(l)

\* C6: openTab called twice on the same Leaf with database-view tabData of
\* the same identity leaves exactly one Tab of that identity in the Leaf, the
\* Leaf's activeTabId is that Tab's id after each call, and the second call
\* changes nothing.
C6_OpenTabTwice ==
    \A tabData \in {d \in TabInputs : d.type = "database-view" /\ d.hasMeta},
       leafId \in LeafIds(editorTree) \cup {NoLeafArg} :
        LET created == openTabCreates(editorTree, tabData, leafId)
            target == openTabTarget(editorTree, leafId)[1].id
            once == openTab(editorTree, tabData, leafId, Uuid(nextUuid + 1))
            twice == openTab(once, tabData, leafId,
                             Uuid(nextUuid + (IF created THEN 2 ELSE 1)))
            leaf1 == LeafAt(once, target)
            leaf2 == LeafAt(twice, target)
            views == ViewsOf(leaf2, tabData.meta)
        IN /\ Cardinality(views) = 1
           /\ \A i \in views : /\ leaf1.activeTabId = leaf2.tabs[i].id
                               /\ leaf2.activeTabId = leaf2.tabs[i].id
           /\ twice = once

\* C7: resizeNode(nodeId, r) on an existing Node stores min(max(r, 0.1), 0.9).
C7_ResizeClamps ==
    \A n \in Nodes(editorTree), r \in RatioInputs :
        \A m \in Nodes(resizeNode(editorTree, n.id, r)) :
            m.id = n.id => m.ratio = Min(Max(r, RatioMin), RatioMax)

\* C8: the tree is a finite binary tree with at least one Leaf, and no id is
\* shared by two Leaves, two Nodes, or a Leaf and a Node.
C8_BinaryTreeUniqueIds ==
    /\ IsBinaryTree(editorTree)
    /\ Len(LeafSeq(editorTree)) >= 1
    /\ Cardinality(LeafIds(editorTree) \cup NodeIds(editorTree))
         = Len(LeafSeq(editorTree)) + Len(NodeSeq(editorTree))

\* a second split has produced two Nodes and three Leaves
C8_Witness ==
    /\ last = "splitLeaf"
    /\ Len(NodeSeq(editorTree)) = 2
    /\ Len(LeafSeq(editorTree)) = 3

\* C9: each Tab id occurs exactly once in the whole tree.
C9_TabIdsUnique ==
    LET ids == TabIdSeq(LeafSeq(editorTree))
    IN \A i, j \in 1..Len(ids) : ids[i] = ids[j] => i = j

\* a split tree whose two Leaves both hold Tabs
C9_Witness ==
    /\ last = "openTab"
    /\ editorTree.type = "node"
    /\ editorTree.a.type = "leaf" /\ Len(editorTree.a.tabs) >= 1
    /\ editorTree.b.type = "leaf" /\ Len(editorTree.b.tabs) >= 1

\* C10: closeTab(tabId, leafId) with tabId in the Leaf removes exactly that Tab
\* and keeps the order of the others; if it was the active Tab the last
\* remaining Tab becomes active (none if no Tab remains), otherwise
\* activeTabId is unchanged.
C10_CloseTab ==
    \A old \in Leaves(editorTree) :
        \A i \in 1..Len(old.tabs) :
            LET tabId == old.tabs[i].id
                new == LeafAt(closeTab(editorTree, tabId, old.id), old.id)
                rest == SubSeq(old.tabs, 1, i - 1)
                          \o SubSeq(old.tabs, i + 1, Len(old.tabs))
            IN /\ new.tabs = rest
               /\ old.activeTabId = tabId =>
                     new.activeTabId = IF rest = <<>> THEN Null
                                       ELSE rest[Len(rest)].id
               /\ old.activeTabId # tabId =>
                     new.activeTabId = old.activeTabId

\* closeTab has closed tab-1, the active Tab, and tab-3, the last of the two
\* that remain, is active
C10_Witness ==
    /\ last = "closeTab"
    /\ editorTree.type = "leaf"
    /\ TabIdSeq(<<editorTree>>) = <<"tab-2", "tab-3">>
    /\ editorTree.activeTabId = "tab-3"

\* C11: closeTabsToRight(tabId, leafId) with tabId the last Tab of the Leaf
\* leaves the Leaf's tabs and its activeTabId as they were.
C11_CloseToRightOfLast ==
    \A old \in Leaves(editorTree) :
        old.tabs # <<>> =>
            LET tabId == old.tabs[Len(old.tabs)].id
                new == LeafAt(closeTabsToRight(editorTree, tabId, old.id),
                              old.id)
            IN /\ new.tabs = old.tabs
               /\ new.activeTabId = old.activeTabId

\* C12: closeTabsToRight(tabId, leafId) with tabId in the Leaf truncates tabs
\* to the prefix that ends at tabId; the active Tab stays active if it is in
\* the prefix, otherwise tabId becomes active.
C12_CloseTabsToRight ==
    \A old \in Leaves(editorTree) :
        \A i \in 1..Len(old.tabs) :
            LET tabId == old.tabs[i].id
                new == LeafAt(closeTabsToRight(editorTree, tabId, old.id),
                              old.id)
                inPrefix == \E j \in 1..i : old.tabs[j].id = old.activeTabId
            IN /\ new.tabs = SubSeq(old.tabs, 1, i)
               /\ new.activeTabId = IF inPrefix THEN old.activeTabId
                                    ELSE tabId

\* closeTabsToRight has cut three Tabs down to two and tab-1, the active Tab,
\* has stayed active
C12_Witness ==
    /\ last = "closeTabsToRight"
    /\ editorTree.type = "leaf"
    /\ TabIdSeq(<<editorTree>>) = <<"tab-1", "tab-2">>
    /\ editorTree.activeTabId = "tab-1"
    /\ nextUuid >= 3

\* C13: closeOtherTabs(tabId, leafId) with tabId in the Leaf makes tabs the
\* one-element list of that Tab and makes it active; with tabId not in the
\* Leaf the Leaf is unchanged.
C13_CloseOtherTabs ==
    \A old \in Leaves(editorTree) :
        \A tabId \in TabArgs :
            LET new == LeafAt(closeOtherTabs(editorTree, tabId, old.id),
                              old.id)
            IN IF tabId \in TabIdsOf(old)
               THEN /\ Len(new.tabs) = 1
                    /\ new.tabs[1] \in Range(old.tabs)
                    /\ new.tabs[1].id = tabId
                    /\ new.activeTabId = tabId
               ELSE new = old

\* closeOtherTabs has reduced the first Leaf to tab-1, which is active, next
\* to a second Leaf that still holds its Tabs
C13_Witness ==
    /\ last = "closeOtherTabs"
    /\ editorTree.type = "node"
    /\ editorTree.a.type = "leaf"
    /\ TabIdSeq(<<editorTree.a>>) = <<"tab-1">>
    /\ editorTree.a.activeTabId = "tab-1"
    /\ editorTree.b.type = "leaf"
    /\ editorTree.b.tabs # <<>>

\* the tree without the tabs and active tabs of its Leaves: the Nodes with
\* their fields and the Leaves' ids, each at its position
RECURSIVE Shape(_)
Shape(tree) ==
    IF tree.type = "leaf" THEN [type |-> "leaf", id |-> tree.id]
    ELSE [tree EXCEPT !.a = Shape(tree.a), !.b = Shape(tree.b)]

\* C14: closeAllTabs(leafId) makes the Leaf's tabs empty and its activeTabId
\* none, and the Leaf stays in the tree at the same position with the same id.
C14_CloseAllTabs ==
    \A old \in Leaves(editorTree) :
        LET newTree == closeAllTabs(editorTree, old.id)
            new == LeafAt(newTree, old.id)
        IN /\ new.tabs = <<>>
           /\ new.activeTabId = Null
           /\ Shape(newTree) = Shape(editorTree)

\* closeAllTabs has emptied the second Leaf of a split tree whose first Leaf
\* still holds a Tab
C14_Witness ==
    /\ last = "closeAllTabs"
    /\ editorTree.type = "node"
    /\ editorTree.a.type = "leaf"
    /\ editorTree.a.tabs # <<>>
    /\ editorTree.b.type = "leaf"
    /\ editorTree.b.tabs = <<>>
    /\ editorTree.b.activeTabId = Null

\* the tree with the Node of the given id replaced by its child a
RECURSIVE Collapse(_, _)
Collapse(tree, nodeId) ==
    IF tree.type = "leaf" THEN tree
    ELSE IF tree.id = nodeId THEN tree.a
    ELSE [tree EXCEPT !.a = Collapse(tree.a, nodeId),
                      !.b = Collapse(tree.b, nodeId)]

\* C15: splitLeaf(leafId, direction) on an existing Leaf puts in its place a
\* new Node with a fresh id, the given direction and ratio 0.5, whose child a
\* is the original Leaf as it was and whose child b is a new Leaf with a fresh
\* id, no tabs and no active tab; the rest of the tree is unchanged.
C15_SplitLeaf ==
    \A old \in Leaves(editorTree), direction \in Directions :
        LET newTree == splitLeaf(editorTree, old.id, direction,
                                 Uuid(nextUuid + 1), Uuid(nextUuid + 2))
            oldIds == LeafIds(editorTree) \cup NodeIds(editorTree)
            added == {n \in Nodes(newTree) : n.id \notin oldIds}
        IN /\ Cardinality(added) = 1
           /\ \A n \in added :
                /\ n.direction = direction
                /\ n.ratio = SplitRatio
                /\ n.a = old
                /\ n.b.type = "leaf"
                /\ n.b.id \notin oldIds \cup {n.id}
                /\ n.b.tabs = <<>>
                /\ n.b.activeTabId = Null
                /\ Collapse(newTree, n.id) = editorTree

\* splitLeaf has split the root Leaf, which holds tab-1, into node-2 with the
\* root Leaf as child a and the empty leaf-3 as child b
C15_Witness ==
    /\ last = "splitLeaf"
    /\ editorTree.type = "node"
    /\ editorTree.id = "node-2"
    /\ editorTree.a.type = "leaf"
    /\ editorTree.a.id = "root-editor"
    /\ TabIdSeq(<<editorTree.a>>) = <<"tab-1">>
    /\ editorTree.b.type = "leaf"
    /\ editorTree.b.id = "leaf-3"
    /\ editorTree.b.tabs = <<>>

\* the tree is `tree` with tabData opened in the Leaf `target`: that Leaf's
\* active Tab is one of tabData's type and meta, and no other Leaf and no
\* Node has changed
OpenedIn(tree, newTree, target, tabData) ==
    LET new == LeafAt(newTree, target)
    IN /\ \E i \in 1..Len(new.tabs) :
            /\ new.tabs[i].id = new.activeTabId
            /\ new.tabs[i].type = tabData.type
            /\ new.tabs[i].hasMeta = tabData.hasMeta
            /\ Identity(new.tabs[i].meta) = Identity(tabData.meta)
       /\ Shape(newTree) = Shape(tree)
       /\ \A l \in Leaves(tree) : l.id # target => l \in Leaves(newTree)

\* C16: openTab opens the tab in the Leaf named by leafId when leafId is given
\* and names a Leaf, and in findFirstLeaf(tree) in every other case, leafId
\* omitted or naming no Leaf.
C16_OpenTabTarget ==
    \A tabData \in TabInputs, leafId \in LeafArgs \cup {NoLeafArg} :
        LET newTree == openTab(editorTree, tabData, leafId, Uuid(nextUuid + 1))
            target == IF leafId \in LeafIds(editorTree) THEN leafId
                      ELSE findFirstLeaf(editorTree).id
        IN OpenedIn(editorTree, newTree, target, tabData)

\* C16 as the code has it: openTab opens the tab in the Leaf named by leafId
\* when leafId is given and names a Leaf, in findFirstLeaf(tree) when leafId
\* is omitted, and leaves the tree unchanged when leafId is given and names
\* no Leaf.
C16_OpenTabTargetOrNoop ==
    \A tabData \in TabInputs, leafId \in LeafArgs \cup {NoLeafArg} :
        LET newTree == openTab(editorTree, tabData, leafId, Uuid(nextUuid + 1))
        IN IF leafId \in LeafIds(editorTree)
           THEN OpenedIn(editorTree, newTree, leafId, tabData)
           ELSE IF leafId = NoLeafArg
           THEN OpenedIn(editorTree, newTree, findFirstLeaf(editorTree).id,
                         tabData)
           ELSE newTree = editorTree

\* openTab has opened tab-3 in leaf-2, the second Leaf, while the first Leaf
\* has no Tab
C16_Witness ==
    /\ last = "openTab"
    /\ editorTree.type = "node"
    /\ editorTree.a.type = "leaf"
    /\ editorTree.a.tabs = <<>>
    /\ editorTree.b.type = "leaf"
    /\ editorTree.b.id = "leaf-2"
    /\ TabIdSeq(<<editorTree.b>>) = <<"tab-3">>
    /\ editorTree.b.activeTabId = "tab-3"

\* C17: openTab of tabData that is not a database-view with meta appends
\* exactly one new Tab with a fresh id at the end of the target Leaf's tabs and
\* makes it active, also when a Tab of the same title, type and meta is
\* already in that Leaf.
C17_OpenTabAppends ==
    \A tabData \in {d \in TabInputs : ~(d.type = "database-view" /\ d.hasMeta)}
                     \cup {[title |-> "Database", type |-> "database-view",
                            hasMeta |-> FALSE, meta |-> NoMeta]},
       leafId \in LeafIds(editorTree) \cup {NoLeafArg} :
        LET uuid == Uuid(nextUuid + 1)
            newTree == openTab(editorTree, tabData, leafId, uuid)
            old == openTabTarget(editorTree, leafId)[1]
            new == LeafAt(newTree, old.id)
            newTab == new.tabs[Len(new.tabs)]
        IN /\ Len(new.tabs) = Len(old.tabs) + 1
           /\ SubSeq(new.tabs, 1, Len(old.tabs)) = old.tabs
           /\ newTab.id \notin TabIds(editorTree)
           /\ newTab.title = tabData.title
           /\ newTab.type = tabData.type
           /\ newTab.hasMeta = tabData.hasMeta
           /\ newTab.meta = tabData.meta
           /\ new.activeTabId = newTab.id

\* openTab has added a second "New Query" Tab of type sql to the root Leaf and
\* made it active
C17_Witness ==
    /\ last = "openTab"
    /\ editorTree.type = "leaf"
    /\ Len(editorTree.tabs) = 2
    /\ \A i \in 1..2 : /\ editorTree.tabs[i].type = "sql"
                       /\ editorTree.tabs[i].title = "New Query"
    /\ editorTree.activeTabId = editorTree.tabs[2].id
    /\ editorTree.tabs[2].id = "tab-2"

\* C18: closeTab, closeOtherTabs, closeTabsToRight, closeAllTabs, setActiveTab
\* and splitLeaf with a leafId that names no Leaf (the id of a Node included),
\* and resizeNode with an id that names no Node (the id of a Leaf included),
\* leave the whole tree as it was.
C18_MissingLeafOrNodeNoop ==
    /\ \A leafId \in LeafArgs \ LeafIds(editorTree) :
          /\ \A tabId \in TabArgs :
                /\ closeTab(editorTree, tabId, leafId) = editorTree
                /\ closeOtherTabs(editorTree, tabId, leafId) = editorTree
                /\ closeTabsToRight(editorTree, tabId, leafId) = editorTree
                /\ setActiveTab(editorTree, tabId, leafId) = editorTree
          /\ closeAllTabs(editorTree, leafId) = editorTree
          /\ \A direction \in Directions :
                splitLeaf(editorTree, leafId, direction, Uuid(nextUuid + 1),
                          Uuid(nextUuid + 2)) = editorTree
    /\ \A nodeId \in NodeArgs \ NodeIds(editorTree), newRatio \in RatioInputs :
          resizeNode(editorTree, nodeId, newRatio) = editorTree

\* a split tree with Tabs in its first Leaf: called with the Node's id as
\* leafId closeAllTabs changes nothing, called with the Leaf's id it does; and
\* resizeNode changes nothing with the Leaf's id while it does with the Node's
C18_Witness ==
    /\ editorTree.type = "node"
    /\ editorTree.a.type = "leaf"
    /\ editorTree.a.tabs # <<>>
    /\ closeAllTabs(editorTree, editorTree.id) = editorTree
    /\ closeAllTabs(editorTree, editorTree.a.id) # editorTree
    /\ resizeNode(editorTree, editorTree.a.id, 95) = editorTree
    /\ resizeNode(editorTree, editorTree.id, 95) # editorTree

\* C19: closeTab, closeOtherTabs, closeTabsToRight and setActiveTab on an
\* existing Leaf with a tab id that is not in that Leaf's tabs, and updateTab
\* with a tab id that is in no Leaf, leave the whole tree unchanged.
C19_MissingTabNoop ==
    /\ \A leaf \in Leaves(editorTree) :
          \A tabId \in TabArgs \ TabIdsOf(leaf) :
             /\ closeTab(editorTree, tabId, leaf.id) = editorTree
             /\ closeOtherTabs(editorTree, tabId, leaf.id) = editorTree
             /\ closeTabsToRight(editorTree, tabId, leaf.id) = editorTree
             /\ setActiveTab(editorTree, tabId, leaf.id) = editorTree
    /\ \A tabId \in TabArgs \ TabIds(editorTree), updates \in UpdateInputs :
          updateTab(editorTree, tabId, updates) = editorTree

\* C20: setActiveTab(tabId, leafId) on an existing Leaf sets that Leaf's
\* activeTabId to tabId, whether or not a Tab of the Leaf has that id, and
\* changes nothing else.
C20_SetActiveTab ==
    \A old \in Leaves(editorTree), tabId \in TabArgs :
        LET newTree == setActiveTab(editorTree, tabId, old.id)
            was == LeafSeq(editorTree)
            now == LeafSeq(newTree)
        IN /\ Len(now) = Len(was)
           /\ \A i \in 1..Len(was) :
                now[i] = IF was[i].id = old.id
                         THEN [was[i] EXCEPT !.activeTabId = tabId]
                         ELSE was[i]
           /\ Shape(newTree) = Shape(editorTree)

\* setActiveTab has made tab-x, the id of no Tab, the active tab id of the root
\* Leaf, which holds tab-1
C20_Witness ==
    /\ last = "setActiveTab"
    /\ editorTree.type = "leaf"
    /\ TabIdSeq(<<editorTree>>) = <<"tab-1">>
    /\ editorTree.activeTabId = "tab-x"

\* C21: updateTab(tabId, updates) changes the Tab of that id in whichever Leaf
\* holds it: the title is replaced when one is given, meta is merged key by
\* key (keys absent from the update keep their values); the Tab's id, type and
\* position, every Leaf's activeTabId and every other Tab are unchanged.
C21_UpdateTab ==
    \A tabId \in TabIds(editorTree),
       updates \in UpdateInputs
                     \cup {[hasTitle |-> TRUE, title |-> "Renamed",
                            hasMeta |-> FALSE, meta |-> NoMeta],
                           [hasTitle |-> FALSE, title |-> Undefined,
                            hasMeta |-> TRUE, meta |-> [database |-> "c"]]} :
        LET newTree == updateTab(editorTree, tabId, updates)
            was == LeafSeq(editorTree)
            now == LeafSeq(newTree)
        IN /\ Shape(newTree) = Shape(editorTree)
           /\ Len(now) = Len(was)
           /\ \A i \in 1..Len(was) :
                /\ now[i].activeTabId = was[i].activeTabId
                /\ Len(now[i].tabs) = Len(was[i].tabs)
                /\ \A j \in 1..Len(was[i].tabs) :
                     LET o == was[i].tabs[j]
                         n == now[i].tabs[j]
                     IN IF o.id # tabId THEN n = o
                        ELSE /\ n.id = o.id
                             /\ n.type = o.type
                             /\ n.title = IF updates.hasTitle
                                          THEN updates.title ELSE o.title
                             /\ IF updates.hasMeta
                                THEN /\ n.hasMeta
                                     /\ DOMAIN n.meta =
                                          DOMAIN o.meta \cup DOMAIN updates.meta
                                     /\ \A k \in DOMAIN updates.meta :
                                          n.meta[k] = updates.meta[k]
                                     /\ \A k \in DOMAIN o.meta
                                                   \ DOMAIN updates.meta :
                                          n.meta[k] = o.meta[k]
                                ELSE /\ n.hasMeta = o.hasMeta
                                     /\ n.meta = o.meta

\* updateTab has turned the one Tab of the second Leaf, a view opened for
\* another database, into the view of database a with its title, next to a
\* first Leaf that holds tab-1
C21_Witness ==
    /\ last = "updateTab"
    /\ editorTree.type = "node"
    /\ editorTree.a.type = "leaf"
    /\ TabIdSeq(<<editorTree.a>>) = <<"tab-1">>
    /\ editorTree.b.type = "leaf"
    /\ Len(editorTree.b.tabs) = 1
    /\ editorTree.b.tabs[1].type = "database-view"
    /\ editorTree.b.tabs[1].title = "Database: a"
    /\ editorTree.b.tabs[1].meta.database = "a"

\* newTree differs from tree in no Node and in no Leaf other than the target
Framed(tree, newTree, target) ==
    /\ Shape(newTree) = Shape(tree)
    /\ \A leaf \in Leaves(tree) :
          leaf.id # target => LeafAt(newTree, leaf.id) = leaf

\* C27: openTab, closeTab, closeOtherTabs, closeTabsToRight, closeAllTabs and
\* setActiveTab change tabs and activeTabId of at most the targeted Leaf (for
\* openTab without leafId, the first Leaf): every other Leaf is the same after
\* the call, and so are the Nodes with their ids, directions, ratios and the
\* positions of their children.
C27_TabOpsFrame ==
    /\ \A tabData \in TabInputs, leafId \in LeafArgs \cup {NoLeafArg} :
          Framed(editorTree,
                 openTab(editorTree, tabData, leafId, Uuid(nextUuid + 1)),
                 IF leafId = NoLeafArg THEN findFirstLeaf(editorTree).id
                 ELSE leafId)
    /\ \A tabId \in TabArgs, leafId \in LeafArgs :
          /\ Framed(editorTree, closeTab(editorTree, tabId, leafId), leafId)
          /\ Framed(editorTree, closeOtherTabs(editorTree, tabId, leafId), leafId)
          /\ Framed(editorTree, closeTabsToRight(editorTree, tabId, leafId), leafId)
          /\ Framed(editorTree, setActiveTab(editorTree, tabId, leafId), leafId)
    /\ \A leafId \in LeafArgs :
          Framed(editorTree, closeAllTabs(editorTree, leafId), leafId)

\* one of the six calls has changed a Leaf of a split tree in which another
\* Leaf holds tabs
C27_Witness ==
    /\ last \in {"openTab", "closeTab", "closeOtherTabs", "closeTabsToRight",
                 "closeAllTabs", "setActiveTab"}
    /\ \E l1 \in Leaves(editorTree), l2 \in Leaves(editorTree) :
          /\ l1.id # l2.id
          /\ l1.tabs # <<>>
          /\ l2.tabs # <<>>

\* C28: no operation removes a Leaf or a Node.  In every step the Leaf ids and
\* the Node ids of the tree before are ids of the tree after, closeLeaf and
\* the calls that close a Leaf's last tab included.
C28_IdsOnlyGrow ==
    [][/\ LeafIds(editorTree) \subseteq LeafIds(editorTree')
       /\ NodeIds(editorTree) \subseteq NodeIds(editorTree')]_vars

\* a close has just emptied a Leaf of a split tree, and the Leaf is still there
C28_Witness ==
    /\ last \in {"closeTab", "closeAllTabs"}
    /\ NodeIds(editorTree) # {}
    /\ \E leaf \in Leaves(editorTree) :
          /\ leaf.tabs = <<>>
          /\ leaf.id # "root-editor"
          /\ closeLeaf(editorTree, leaf.id) = editorTree

\* C33: in every reachable state findFirstLeaf(tree) is the Leaf with id
\* "root-editor", and openTab without leafId opens in that Leaf: the tree after
\* the call differs from the tree before in no other Leaf, and the tab opened
\* or activated is the active tab of "root-editor".
C33_FirstLeafIsRoot ==
    /\ findFirstLeaf(editorTree).type = "leaf"
    /\ findFirstLeaf(editorTree).id = "root-editor"
    /\ \A tabData \in TabInputs :
          LET newTree == openTab(editorTree, tabData, NoLeafArg, Uuid(nextUuid + 1))
              new == LeafAt(newTree, "root-editor")
          IN /\ Framed(editorTree, newTree, "root-editor")
             /\ \E i \in 1..Len(new.tabs) :
                   /\ new.tabs[i].id = new.activeTabId
                   /\ new.tabs[i].type = tabData.type

\* the tree has been split, "root-editor" lies below a Node next to another
\* Leaf, and an openTab has then put a tab into it
C33_Witness ==
    /\ last = "openTab"
    /\ editorTree.type = "node"
    /\ editorTree.a.type = "leaf"
    /\ editorTree.a.id = "root-editor"
    /\ editorTree.a.tabs # <<>>
    /\ editorTree.b.tabs = <<>>

\* C34: no Leaf holds two database-view Tabs of the same identity, that is
\* with the same meta.profileId and the same meta.database.
C34_NoDuplicateViews ==
    \A leaf \in Leaves(editorTree) :
        \A i \in 1..Len(leaf.tabs) :
            (leaf.tabs[i].type = "database-view" /\ leaf.tabs[i].hasMeta) =>
                ViewsOf(leaf, leaf.tabs[i].meta) = {i}

\* the keydown listener that the EditorNode of a Leaf registers on window, for
\* Ctrl+W; leaf is the Leaf as rendered when the listener was registered
handleKeyDown(tree, leaf) ==
    IF leaf.activeTabId # Null
    THEN closeTab(tree, leaf.activeTabId, leaf.id)
    ELSE tree

\* window dispatches one keydown event to the listeners of these Leaves in turn
RECURSIVE dispatchKeyDown(_, _)
dispatchKeyDown(tree, leaves) ==
    IF leaves = <<>> THEN tree
    ELSE dispatchKeyDown(handleKeyDown(tree, Head(leaves)), Tail(leaves))

\* one Ctrl+W key event: every rendered Leaf has its listener on window
CtrlW ==
    /\ editorTree' = dispatchKeyDown(editorTree, LeafSeq(editorTree))
    /\ last' = Effect("ctrlW")
    /\ UNCHANGED <<nextUuid, cacheVars, sash, profiles>>

NextKeys ==
    \/ NextLayout
    \/ CtrlW

SpecKeys == Init /\ [][NextKeys]_vars

\* C39: one Ctrl+W key event closes at most one Tab of the whole tree.
C39_CtrlWClosesOne ==
    Cardinality(TabIds(editorTree)
                  \ TabIds(dispatchKeyDown(editorTree, LeafSeq(editorTree)))) <= 1

----------------------------------------------------------------------------
(* useSchemaStore operations, as functions from the state to the new state *)

\* { ...m } with the keys of drop deleted
DeleteKeys(m, drop) == [k \in DOMAIN m \ drop |-> m[k]]

addConnection(st, profileId, name, color) ==
    [st EXCEPT !.connectedProfiles =
                  Put(@, profileId, [name |-> name, color |-> color])]

\* removeConnection that matches tables and columns keys by the bare id
removeConnection_bareId(st, profileId) ==
    LET Begins(key) == StartsWith(key, profileId)
    IN [st EXCEPT !.connectedProfiles = Del(@, profileId),
                  !.databases = Del(@, profileId),
                  !.tables = DeleteKeys(@, {k \in DOMAIN @ : Begins(k)}),
                  !.columns = DeleteKeys(@, {k \in DOMAIN @ : Begins(k)}),
                  !.errors = DeleteKeys(@, {k \in DOMAIN @ : Begins(k)})]

removeConnection(st, profileId) ==
    LET Under(key) == StartsWith(key, profileId \o "::")
        Begins(key) == StartsWith(key, profileId)
    IN [st EXCEPT !.connectedProfiles = Del(@, profileId),
                  !.databases = Del(@, profileId),
                  !.tables = DeleteKeys(@, {k \in DOMAIN @ : Under(k)}),
                  !.columns = DeleteKeys(@, {k \in DOMAIN @ : Under(k)}),
                  !.errors = DeleteKeys(@, {k \in DOMAIN @ : Begins(k)})]

setDatabases(st, profileId, dbs) ==
    [st EXCEPT !.databases = Put(@, profileId, dbs)]

setTables(st, profileId, db, tbls) ==
    [st EXCEPT !.tables = Put(@, profileId \o "::" \o db, tbls)]

setColumns(st, profileId, db, table, cols) ==
    [st EXCEPT !.columns =
                  Put(@, profileId \o "::" \o db \o "::" \o table, cols)]

\* setLoading that keeps one loading map for the three kinds
setLoading_oneMap(st, key, kind, loading) ==
    [st EXCEPT !.loadingDatabases = Put(@, key, loading)]

setLoading(st, key, kind, loading) ==
    LET loadingKey == IF kind = "databases" THEN "loadingDatabases"
                      ELSE IF kind = "tables" THEN "loadingTables"
                      ELSE "loadingColumns"
    IN [st EXCEPT ![loadingKey] = Put(@, key, loading)]

setError(st, key, error) == [st EXCEPT !.errors = Put(@, key, error)]

clearError(st, key) == [st EXCEPT !.errors = Del(@, key)]

----------------------------------------------------------------------------
(* The explorer: what it renders and the listings it requests *)

ProfileIds == {"p1"}

\* results of the backend listings; String(e) of a rejected call
DbLists == {<<"a">>, <<"a", "b">>}
TableLists == {<<"t">>}
ColumnLists == {<<[name |-> "id", key |-> "PRI"]>>}
ErrorTexts == {"E"}

\* a map entry read in a condition: undefined and false are both falsy
Truthy(m, k) == Has(m, k) /\ m[k] = TRUE

\* expanded[nodeKey] ?? dflt
isOpen(nodeKey, dflt) == IF Has(expanded, nodeKey) THEN expanded[nodeKey] ELSE dflt

\* toggle(key): { ...prev, [key]: !prev[key] }
toggle(exp, key) == Put(exp, key, ~Truthy(exp, key))

\* ExplorerTree renders a ProfileNode per connected profile, a DatabaseNode
\* per listed database of an open profile, a TableNode per listed table of an
\* open database
ProfileRendered(c) == Has(schema.connectedProfiles, c)

DatabaseRendered(c, db) ==
    /\ ProfileRendered(c)
    /\ isOpen("profile-" \o c, TRUE)
    /\ Has(schema.databases, c)
    /\ db \in Range(schema.databases[c])

TableRendered(c, db, t) ==
    /\ DatabaseRendered(c, db)
    /\ isOpen("db-" \o c \o "::" \o db, FALSE)
    /\ Has(schema.tables, c \o "::" \o db)
    /\ t \in Range(schema.tables[c \o "::" \o db])

\* a backend call in flight: kind of listing, cache key, the handler awaiting
\* it; slot tells apart two calls that are otherwise equal
FreeSlot == CHOOSE n \in 1..(MaxPending + 1) : \A f \in pending : f.slot # n

Fetch(kind, handler, c, db, t) ==
    [kind |-> kind, handler |-> handler, profileId |-> c, db |-> db,
     table |-> t, slot |-> FreeSlot]

cacheKey(f) ==
    IF f.kind = "databases" THEN f.profileId
    ELSE IF f.kind = "tables" THEN f.profileId \o "::" \o f.db
    ELSE f.profileId \o "::" \o f.db \o "::" \o f.table

errorKey(f) ==
    IF f.kind = "databases" THEN "dbs-" \o cacheKey(f)
    ELSE IF f.kind = "tables" THEN "tbl-" \o cacheKey(f)
    ELSE "col-" \o cacheKey(f)

\* mutant: the fetch starts without setting the key's loading flag
beginFetch_noLoading(st, f) == clearError(st, errorKey(f))

\* setLoading(key, kind, true); clearError(errorKey), before the await
beginFetch(st, f) ==
    clearError(setLoading(st, cacheKey(f), f.kind, TRUE), errorKey(f))

\* the try block after the await, then finally
fetchResolved(st, f, data) ==
    LET stored == IF f.kind = "databases" THEN setDatabases(st, f.profileId, data)
                  ELSE IF f.kind = "tables"
                       THEN setTables(st, f.profileId, f.db, data)
                  ELSE setColumns(st, f.profileId, f.db, f.table, data)
    IN setLoading(stored, cacheKey(f), f.kind, FALSE)

\* the catch block, then finally
fetchRejected(st, f, text) ==
    setLoading(setError(st, errorKey(f), text), cacheKey(f), f.kind, FALSE)

\* the refresh after a database was dropped or edited: setLoading(pid,
\* "databases", true) before the await, no clearError
reloadBegin(st, f) == setLoading(st, cacheKey(f), f.kind, TRUE)

\* its `catch { /* ignore */ }`, then finally
reloadRejected(st, f) == setLoading(st, cacheKey(f), f.kind, FALSE)

\* CreateDatabaseModal.handleCreate when its dbListDatabases rejects: the catch
\* block sets the modal's own error and isSubmitting, nothing of the store
createRejected(st, f) == st

\* what the handler awaiting f does when the listing rejects
rejected(st, f, text) ==
    IF f.handler = "reload" THEN reloadRejected(st, f)
    ELSE IF f.handler = "create" THEN createRejected(st, f)
    ELSE fetchRejected(st, f, text)

ResultsOf(f) ==
    IF f.kind = "databases" THEN DbLists
    ELSE IF f.kind = "tables" THEN TableLists
    ELSE ColumnLists

----------------------------------------------------------------------------
(* Cache actions: connection events, explorer handlers, fetch completions *)

\* ServersSidebar.handleConnect after dbConnect resolved
Connect ==
    \E c \in ProfileIds :
        /\ ~Has(schema.connectedProfiles, c)
        /\ schema' = addConnection(schema, c, "P", "blue")
        /\ last' = "addConnection"
        /\ UNCHANGED <<layoutVars, expanded, pending, sash, profiles>>

\* handleDisconnect / handleConnect of a connected profile / handleDelete,
\* after dbDisconnect settled
Disconnect ==
    \E c \in ProfileIds :
        /\ Has(schema.connectedProfiles, c)
        /\ schema' = removeConnection(schema, c)
        /\ last' = "removeConnection"
        /\ UNCHANGED <<layoutVars, expanded, pending, sash, profiles>>

\* ProfileNode.handleExpand up to its await
ProfileExpand ==
    \E c \in ProfileIds :
        LET nodeKey == "profile-" \o c
            wasOpen == isOpen(nodeKey, TRUE)
            f == Fetch("databases", "expand", c, "", "")
            fetches == /\ ~wasOpen \/ (~Has(schema.databases, c)
                                        /\ ~Truthy(schema.loadingDatabases, c))
                       /\ ~Has(schema.databases, c)
        IN /\ ProfileRendered(c)
           /\ expanded' = toggle(expanded, nodeKey)
           /\ IF fetches
              THEN /\ Cardinality(pending) < MaxPending
                   /\ schema' = beginFetch(schema, f)
                   /\ pending' = pending \cup {f}
              ELSE UNCHANGED <<schema, pending>>
           /\ last' = "ProfileNode.handleExpand"
           /\ UNCHANGED <<layoutVars, sash, profiles>>

\* handleRefresh of the server context menu up to its await
Refresh ==
    \E c \in ProfileIds :
        LET f == Fetch("databases", "refresh", c, "", "")
        IN /\ ProfileRendered(c)
           /\ Cardinality(pending) < MaxPending
           /\ schema' = beginFetch(schema, f)
           /\ pending' = pending \cup {f}
           /\ last' = "handleRefresh"
           /\ UNCHANGED <<layoutVars, expanded, sash, profiles>>

\* onConfirm of the drop modal and onCompleted of the edit modal, from the
\* refresh of the database list up to its await
DatabasesChanged ==
    \E c \in ProfileIds :
        LET f == Fetch("databases", "reload", c, "", "")
        IN /\ DatabaseRendered(c, "a")
           /\ Cardinality(pending) < MaxPending
           /\ schema' = reloadBegin(schema, f)
           /\ pending' = pending \cup {f}
           /\ last' = "reload"
           /\ UNCHANGED <<layoutVars, expanded, sash, profiles>>

\* CreateDatabaseModal.handleCreate after its CREATE DATABASE resolved, up to
\* the await of dbListDatabases: setLoading(profileId, "databases", true)
DatabaseCreated ==
    \E c \in ProfileIds :
        LET f == Fetch("databases", "create", c, "", "")
        IN /\ ProfileRendered(c)
           /\ Cardinality(pending) < MaxPending
           /\ schema' = reloadBegin(schema, f)
           /\ pending' = pending \cup {f}
           /\ last' = "create"
           /\ UNCHANGED <<layoutVars, expanded, sash, profiles>>

\* DatabaseNode.handleExpand up to its await
DatabaseExpand ==
    \E c \in ProfileIds, db \in {"a"} :
        LET key == c \o "::" \o db
            nodeKey == "db-" \o key
            wasOpen == isOpen(nodeKey, FALSE)
            f == Fetch("tables", "expand", c, db, "")
            fetches == /\ ~wasOpen
                       /\ ~Has(schema.tables, key)
                       /\ ~Truthy(schema.loadingTables, key)
        IN /\ DatabaseRendered(c, db)
           /\ expanded' = toggle(expanded, nodeKey)
           /\ IF fetches
              THEN /\ Cardinality(pending) < MaxPending
                   /\ schema' = beginFetch(schema, f)
                   /\ pending' = pending \cup {f}
              ELSE UNCHANGED <<schema, pending>>
           /\ last' = "DatabaseNode.handleExpand"
           /\ UNCHANGED <<layoutVars, sash, profiles>>

\* TableNode.handleToggle up to its await
TableToggle ==
    \E c \in ProfileIds, db \in {"a"}, t \in {"t"} :
        LET key == c \o "::" \o db \o "::" \o t
            nodeKey == "tbl-" \o key
            wasOpen == isOpen(nodeKey, FALSE)
            f == Fetch("columns", "expand", c, db, t)
            fetches == /\ ~wasOpen
                       /\ ~Has(schema.columns, key)
                       /\ ~Truthy(schema.loadingColumns, key)
        IN /\ TableRendered(c, db, t)
           /\ expanded' = toggle(expanded, nodeKey)
           /\ IF fetches
              THEN /\ Cardinality(pending) < MaxPending
                   /\ schema' = beginFetch(schema, f)
                   /\ pending' = pending \cup {f}
              ELSE UNCHANGED <<schema, pending>>
           /\ last' = "TableNode.handleToggle"
           /\ UNCHANGED <<layoutVars, sash, profiles>>

\* the awaited listing resolves: rest of the try block, then finally
FetchResolves ==
    \E f \in pending : \E data \in ResultsOf(f) :
        /\ schema' = fetchResolved(schema, f, data)
        /\ expanded' = IF f.handler = "refresh"
                       THEN Put(expanded, "profile-" \o f.profileId, TRUE)
                       ELSE expanded
        /\ pending' = pending \ {f}
        /\ last' = "resolved"
        /\ UNCHANGED <<layoutVars, sash, profiles>>

\* the awaited listing rejects: the catch block, then finally
FetchRejects ==
    \E f \in pending, text \in ErrorTexts :
        /\ schema' = rejected(schema, f, text)
        /\ pending' = pending \ {f}
        /\ last' = "rejected"
        /\ UNCHANGED <<layoutVars, expanded, sash, profiles>>

NextCache ==
    \/ Connect
    \/ Disconnect
    \/ ProfileExpand
    \/ Refresh
    \/ DatabasesChanged
    \/ DatabaseCreated
    \/ DatabaseExpand
    \/ TableToggle
    \/ FetchResolves
    \/ FetchRejects

SpecCache == Init /\ [][NextCache]_vars

----------------------------------------------------------------------------
(* Properties of the schema cache *)

\* key is the error entry of c's database list, of one of c's table lists or
\* of one of c's column lists
ErrorKeyOf(key, c) ==
    \/ key = "dbs-" \o c
    \/ StartsWith(key, "tbl-" \o c \o "::")
    \/ StartsWith(key, "col-" \o c \o "::")

\* C3: removeConnection(c) leaves, in its one step, no databases[c], no tables
\* or columns key starting with c + "::", and no error entry of c's database
\* list, tables or columns.
C3_RemoveConnectionEvicts ==
    \A c \in ProfileIds :
        LET st == removeConnection(schema, c)
        IN /\ ~Has(st.databases, c)
           /\ \A k \in DOMAIN st.tables : ~StartsWith(k, c \o "::")
           /\ \A k \in DOMAIN st.columns : ~StartsWith(k, c \o "::")
           /\ \A k \in DOMAIN st.errors : ~ErrorKeyOf(k, c)

\* C4: at most one backend fetch is in flight for a cache key.
C4_OneFetchPerKey ==
    \A f, g \in pending :
        (f.kind = g.kind /\ cacheKey(f) = cacheKey(g)) => f = g

\* C5: a fetch that completes, with data or with an error, while its
\* connection is removed writes nothing into databases, tables, columns or
\* errors.
C5_LateResultDiscarded ==
    \A f \in pending :
        ~Has(schema.connectedProfiles, f.profileId) =>
            \A st \in {fetchResolved(schema, f, data) : data \in ResultsOf(f)}
                      \cup {fetchRejected(schema, f, text) : text \in ErrorTexts} :
                /\ st.databases = schema.databases
                /\ st.tables = schema.tables
                /\ st.columns = schema.columns
                /\ st.errors = schema.errors

Kinds == {"databases", "tables", "columns"}

\* the data map and the loading map of a kind of listing
DataMap(st, kind) ==
    IF kind = "databases" THEN st.databases
    ELSE IF kind = "tables" THEN st.tables
    ELSE st.columns

LoadingMap(st, kind) ==
    IF kind = "databases" THEN st.loadingDatabases
    ELSE IF kind = "tables" THEN st.loadingTables
    ELSE st.loadingColumns

\* the step removes connection c
Removes(c) ==
    /\ Has(schema.connectedProfiles, c)
    /\ ~Has(schema'.connectedProfiles, c)

\* C22: per cache key, data or an error is written only by the completion of
\* a fetch of that key, and every fetch set the key's loading flag to true
\* when it started; a populated or errored key keeps its data or error until
\* the error is cleared by the start of a new fetch of the key or the owning
\* connection is removed.
C22_KeyTransitions ==
    [][ /\ \A f \in pending' \ pending :
              Truthy(LoadingMap(schema', f.kind), cacheKey(f))
        /\ \A kind \in Kinds :
              \A key \in DOMAIN DataMap(schema', kind)
                           \ DOMAIN DataMap(schema, kind) :
                 \E f \in pending \ pending' :
                    f.kind = kind /\ cacheKey(f) = key
        /\ \A key \in DOMAIN schema'.errors \ DOMAIN schema.errors :
              \E f \in pending \ pending' : errorKey(f) = key
        /\ \A kind \in Kinds :
              \A key \in DOMAIN DataMap(schema, kind) :
                 (\/ key \notin DOMAIN DataMap(schema', kind)
                  \/ DataMap(schema', kind)[key] # DataMap(schema, kind)[key])
                 => \E c \in ProfileIds :
                       /\ key = c \/ StartsWith(key, c \o "::")
                       /\ Removes(c)
        /\ \A key \in DOMAIN schema.errors :
              (\/ key \notin DOMAIN schema'.errors
               \/ schema'.errors[key] # schema.errors[key])
              => \/ \E f \in pending' \ pending : errorKey(f) = key
                 \/ \E c \in ProfileIds : ErrorKeyOf(key, c) /\ Removes(c)
      ]_vars

\* C22 as the code has it: per cache key, data or an error is written only by
\* the completion of a fetch of that key, and every fetch set the key's
\* loading flag to true when it started; a populated key stays populated
\* until its owning connection is removed, an errored key stays errored until
\* its error is cleared by the start of a new fetch of the key or its owning
\* connection is removed; in between only the completion of a later fetch of
\* the key replaces its data.
C22_KeyTransitionsOrRefetch ==
    [][ /\ \A f \in pending' \ pending :
              Truthy(LoadingMap(schema', f.kind), cacheKey(f))
        /\ \A kind \in Kinds :
              \A key \in DOMAIN DataMap(schema', kind) :
                 (\/ key \notin DOMAIN DataMap(schema, kind)
                  \/ DataMap(schema', kind)[key] # DataMap(schema, kind)[key])
                 => \E f \in pending \ pending' :
                       f.kind = kind /\ cacheKey(f) = key
        /\ \A key \in DOMAIN schema'.errors :
              (\/ key \notin DOMAIN schema.errors
               \/ schema'.errors[key] # schema.errors[key])
              => \E f \in pending \ pending' : errorKey(f) = key
        /\ \A kind \in Kinds :
              \A key \in DOMAIN DataMap(schema, kind)
                           \ DOMAIN DataMap(schema', kind) :
                 \E c \in ProfileIds :
                    /\ key = c \/ StartsWith(key, c \o "::")
                    /\ Removes(c)
        /\ \A key \in DOMAIN schema.errors \ DOMAIN schema'.errors :
              \/ \E f \in pending' \ pending : errorKey(f) = key
              \/ \E c \in ProfileIds : ErrorKeyOf(key, c) /\ Removes(c)
      ]_vars

\* fetches have completed: the database list of p1 is populated with two
\* databases, the table list of p1::a is errored and no longer loading
C22_Witness ==
    /\ Has(schema.databases, "p1")
    /\ schema.databases["p1"] = <<"a", "b">>
    /\ Has(schema.errors, "tbl-p1::a")
    /\ ~Truthy(schema.loadingTables, "p1::a")
    /\ pending = {}

\* C30: when the listing awaited for a key rejects, the message is stored
\* under the key's error entry, the data maps, the connections and the error
\* entries of other keys stay as they were, and afterwards the key's loading
\* flag is false while the other loading flags are unchanged.
C30_FetchFailureRecorded ==
    \A f \in pending, text \in ErrorTexts :
        LET st == rejected(schema, f, text)
        IN /\ Has(st.errors, errorKey(f))
           /\ st.errors[errorKey(f)] = text
           /\ Del(st.errors, errorKey(f)) = Del(schema.errors, errorKey(f))
           /\ st.connectedProfiles = schema.connectedProfiles
           /\ \A kind \in Kinds :
                 /\ DataMap(st, kind) = DataMap(schema, kind)
                 /\ LoadingMap(st, kind) =
                       IF kind = f.kind
                       THEN Put(LoadingMap(schema, kind), cacheKey(f), FALSE)
                       ELSE LoadingMap(schema, kind)

\* the slots a backend call in flight can have
Slots == 1..(MaxPending + 1)

\* the backend call in slot n settles: its promise resolves or rejects and the
\* handler awaiting it runs on
Settles(n) ==
    /\ FetchResolves \/ FetchRejects
    /\ \E f \in pending \ pending' : f.slot = n

\* the cache with a backend that answers every call: each listing in flight
\* resolves or rejects in the end
SpecCacheLive ==
    Init /\ [][NextCache]_vars /\ \A n \in Slots : WF_vars(Settles(n))

\* the cache keys of the listings
CacheKeys == {"p1", "p1::a", "p1::a::t"}

\* C35: a loading flag that is true is false again later: every code path that
\* sets the flag of a key and starts a fetch sets it back when the fetch has
\* resolved or rejected.
C35_LoadingEventuallyFalse ==
    \A kind \in Kinds, key \in CacheKeys :
        Truthy(LoadingMap(schema, kind), key)
            ~> ~Truthy(LoadingMap(schema, kind), key)

\* C36: while a fetch for a cache key is in flight the key's loading flag is
\* true; the flag is false or absent only when no fetch for the key is
\* outstanding.
C36_LoadingWhileInFlight ==
    \A f \in pending : Truthy(LoadingMap(schema, f.kind), cacheKey(f))

\* C37: no cache key is populated and errored at once: a key with a data
\* entry (databases, tables or columns) has no error entry, and a key with
\* an error entry has no data entry.
C37_DataXorError ==
    \A kind \in Kinds :
      \A key \in DOMAIN DataMap(schema, kind) :
        ~Has(schema.errors,
             (IF kind = "databases" THEN "dbs-"
              ELSE IF kind = "tables" THEN "tbl-" ELSE "col-") \o key)

----------------------------------------------------------------------------
(* Dragging the Sash of a Node: the pointer events of one pointer *)

\* pointer coordinates and measured extents, in pixels
Coords == {0, 20}
Extents == {0, 100, 200}

\* what getElementById returns: nothing, or an element with its client size
Containers ==
    {[found |-> FALSE, clientWidth |-> 0, clientHeight |-> 0]} \cup
    {[found |-> TRUE, clientWidth |-> w, clientHeight |-> h] :
        w \in Extents, h \in Extents}

\* the pointer goes down on the Sash of a Node; a pointer that is down does
\* not go down again
PointerDown ==
    \E node \in Range(NodeSeq(editorTree)), x \in Coords, y \in Coords :
        /\ ~sash.pressed
        /\ sash' = [handlePointerDown(sash, node.id, node.direction, x, y)
                      EXCEPT !.pressed = TRUE,
                             !.downX = x, !.downY = y,
                             !.curX = x, !.curY = y,
                             !.reported = 0, !.invoked = FALSE]
        /\ UNCHANGED <<layoutVars, cacheVars, last, profiles>>

\* the pointer moves; the window delivers the event to the listeners it has
PointerMove ==
    \E x \in Coords, y \in Coords, container \in Containers :
        LET runs == moveRuns(sash)
            delta == moveDelta(sash, x, y)
            after == IF sash.listening THEN onPointerMove(sash, x, y) ELSE sash
        IN /\ sash' = [after EXCEPT
                         !.curX = IF sash.pressed THEN x ELSE @,
                         !.curY = IF sash.pressed THEN y ELSE @,
                         !.reported = IF runs THEN @ + delta ELSE @,
                         !.invoked = runs]
           /\ editorTree' = IF runs
                            THEN onDrag(editorTree, sash.node, delta, container)
                            ELSE editorTree
           /\ last' = Effect("onDrag")
           /\ UNCHANGED <<nextUuid, cacheVars, profiles>>

\* the pointer goes up
PointerUp ==
    /\ sash.pressed
    /\ sash' = [(IF sash.listening THEN onPointerUp(sash) ELSE sash)
                  EXCEPT !.pressed = FALSE,
                         !.downX = 0, !.downY = 0, !.curX = 0, !.curY = 0,
                         !.reported = 0, !.invoked = FALSE]
    /\ UNCHANGED <<layoutVars, cacheVars, last, profiles>>

NextSash ==
    \/ SplitLeaf
    \/ PointerDown
    \/ PointerMove
    \/ PointerUp

SpecSash == Init /\ [][NextSash]_vars

----------------------------------------------------------------------------
(* Properties of the drag *)

\* C23: the Sash is idle or dragging.  It is dragging, with the pointer
\* captured and the move and up listeners registered, exactly while the
\* pointer that went down on it is still down; onDrag is invoked only by a
\* pointer-move that arrives while it is dragging, and while it is idle no
\* pointer-move reaches onDrag.
C23_SashStateMachine ==
    /\ sash.isDragging = sash.pressed
    /\ sash.captured = sash.isDragging
    /\ sash.listening = sash.isDragging
    /\ sash.invoked => sash.isDragging
    /\ ~sash.isDragging => ~moveRuns(sash)

\* a drag has changed a ratio and has ended: the Sash is idle again
C23_Witness ==
    /\ last = "onDrag"
    /\ ~sash.pressed
    /\ ~sash.isDragging

\* the coordinate the Sash watches: clientX for direction "vertical", else clientY
Along(s, x, y) == IF s.direction = "vertical" THEN x ELSE y

\* C24: during a drag the delta reported for a pointer-move is its coordinate
\* minus the coordinate of the previous pointer event of the drag, and the
\* deltas reported since the pointer-down sum to the current coordinate minus
\* the coordinate of the pointer-down.
C24_IncrementalDeltas ==
    sash.isDragging =>
        /\ \A x \in Coords, y \in Coords :
              moveDelta(sash, x, y) = Along(sash, x, y) - Along(sash, sash.curX, sash.curY)
        /\ sash.reported =
              Along(sash, sash.curX, sash.curY) - Along(sash, sash.downX, sash.downY)

\* a drag whose latest move was reported and whose deltas do not cancel out
C24_Witness ==
    /\ sash.isDragging
    /\ sash.invoked
    /\ sash.reported # 0

\* EditorNode lays a Node of direction "vertical" out as a column (flex-col):
\* its panes are stacked and the divider between them is horizontal
isVert(node) == node.direction = "vertical"

\* C25: the pixel delta and the extent it is divided by lie on the axis across
\* the divider.  For the Node being dragged, any pointer-move and any measured
\* container, the ratio written is the old ratio plus vertical motion over the
\* container height when the divider is horizontal, and plus horizontal motion
\* over the container width when it is vertical, clamped to the range.
C25_SameAxis ==
    sash.isDragging =>
        \A x \in Coords, y \in Coords, container \in Containers :
            LET node == NodeAt(editorTree, sash.node)
                motion == IF isVert(node) THEN y - sash.curY ELSE x - sash.curX
                extent == IF isVert(node) THEN container.clientHeight
                          ELSE container.clientWidth
                after == onDrag(editorTree, sash.node, moveDelta(sash, x, y), container)
            IN (container.found /\ container.clientWidth > 0
                                /\ container.clientHeight > 0) =>
                  NodeAt(after, sash.node).ratio =
                      Min(Max(node.ratio + (motion * 100) \div extent, RatioMin),
                          RatioMax)

\* the container of the dragged Node cannot be found or measures zero
Unmeasurable(tree, nodeId, container) ==
    \/ ~container.found
    \/ totalSize(NodeAt(tree, nodeId).direction, container) = 0

\* C26: during a drag, a pointer-move whose container cannot be found or has
\* zero measured extent leaves the whole tree, and so the Node's ratio, as it
\* was; the quotient delta / extent is never formed with extent zero.
C26_ZeroExtentNoChange ==
    sash.isDragging =>
        \A x \in Coords, y \in Coords, container \in Containers :
            Unmeasurable(editorTree, sash.node, container) =>
                onDrag(editorTree, sash.node, moveDelta(sash, x, y), container)
                    = editorTree

\* a drag that has reported motion, and a further move with a nonzero delta
\* whose container is found but measures zero
C26_Witness ==
    /\ sash.isDragging
    /\ sash.invoked
    /\ sash.reported # 0
    /\ \E x \in Coords, y \in Coords, container \in Containers :
          /\ container.found
          /\ Unmeasurable(editorTree, sash.node, container)
          /\ moveDelta(sash, x, y) # 0
          /\ onDrag(editorTree, sash.node, moveDelta(sash, x, y), container)
                = editorTree

\* C32: the ratio a drag handler passes to resizeNode is the Node's ratio plus
\* delta / extent limited to [0.1, 0.9], so under splits and drags on any
\* divider every Node's ratio is within [0.1, 0.9], and stays there for every
\* further pointer-move of a drag.
C32_DragKeepsRatioInRange ==
    /\ \A node \in Nodes(editorTree) :
          RatioMin <= node.ratio /\ node.ratio <= RatioMax
    /\ sash.isDragging =>
          \A x \in Coords, y \in Coords, container \in Containers :
              LET after == onDrag(editorTree, sash.node,
                                  moveDelta(sash, x, y), container)
              IN \A node \in Nodes(after) :
                    RatioMin <= node.ratio /\ node.ratio <= RatioMax

\* a drag has moved a ratio to the upper limit, and a further move that would
\* take it beyond leaves it there
C32_Witness ==
    /\ last = "onDrag"
    /\ sash.isDragging
    /\ NodeAt(editorTree, sash.node).ratio = RatioMax
    /\ \E x \in Coords, y \in Coords, container \in Containers :
          /\ container.found
          /\ totalSize(sash.direction, container) > 0
          /\ moveDelta(sash, x, y) > 0
          /\ onDrag(editorTree, sash.node, moveDelta(sash, x, y), container)
                = editorTree

----------------------------------------------------------------------------
(* useSchemaStore with two connections: the store's operations called      *)
(* directly, for two profile ids of which one begins with the other        *)

TwoProfiles == {"p1", "p10"}

\* the error keys the explorer writes for a profile and its database "a"
StoreErrorKeys(c) == {"dbs-" \o c, "tbl-" \o c \o "::a"}

StoreAddConnection ==
    \E c \in TwoProfiles :
        /\ schema' = addConnection(schema, c, "P", "blue")
        /\ last' = "addConnection"
        /\ UNCHANGED <<layoutVars, expanded, pending, sash, profiles>>

StoreRemoveConnection ==
    \E c \in TwoProfiles :
        /\ schema' = removeConnection(schema, c)
        /\ last' = "removeConnection"
        /\ UNCHANGED <<layoutVars, expanded, pending, sash, profiles>>

StoreSetDatabases ==
    \E c \in TwoProfiles :
        /\ schema' = setDatabases(schema, c, <<"a">>)
        /\ last' = "setDatabases"
        /\ UNCHANGED <<layoutVars, expanded, pending, sash, profiles>>

StoreSetTables ==
    \E c \in TwoProfiles :
        /\ schema' = setTables(schema, c, "a", <<"t">>)
        /\ last' = "setTables"
        /\ UNCHANGED <<layoutVars, expanded, pending, sash, profiles>>

StoreSetColumns ==
    \E c \in TwoProfiles :
        /\ schema' = setColumns(schema, c, "a", "t", <<"id">>)
        /\ last' = "setColumns"
        /\ UNCHANGED <<layoutVars, expanded, pending, sash, profiles>>

StoreSetError ==
    \E c \in TwoProfiles :
      \E key \in StoreErrorKeys(c) :
        /\ schema' = setError(schema, key, "E")
        /\ last' = "setError"
        /\ UNCHANGED <<layoutVars, expanded, pending, sash, profiles>>

StoreClearError ==
    \E c \in TwoProfiles :
      \E key \in StoreErrorKeys(c) :
        /\ schema' = clearError(schema, key)
        /\ last' = "clearError"
        /\ UNCHANGED <<layoutVars, expanded, pending, sash, profiles>>

StoreSetLoading ==
    \E loading \in BOOLEAN :
        /\ schema' = setLoading(schema, "p1", "databases", loading)
        /\ last' = "setLoading"
        /\ UNCHANGED <<layoutVars, expanded, pending, sash, profiles>>

NextStore ==
    \/ StoreAddConnection
    \/ StoreRemoveConnection
    \/ StoreSetDatabases
    \/ StoreSetTables
    \/ StoreSetColumns
    \/ StoreSetError
    \/ StoreClearError
    \/ StoreSetLoading

SpecStore == Init /\ [][NextStore]_vars

\* the entries of map m that belong to connection d, given which keys do
EntriesOf(m, keys) == [k \in DOMAIN m \cap keys |-> m[k]]

\* the keys of a tables or columns map under connection d
KeysUnder(m, d) == {k \in DOMAIN m : StartsWith(k, d \o "::")}

\* the error keys of connection d
ErrorKeysOf(m, d) == {k \in DOMAIN m : ErrorKeyOf(k, d)}

\* C29: removeConnection(c) leaves every other connection d as it was: d's
\* connectedProfiles and databases entries, the tables and columns entries
\* under d + "::" and d's error entries are the same after the call, also
\* when the id of d begins with the id of c.
C29_RemoveConnectionFrame ==
    \A c \in TwoProfiles, d \in TwoProfiles :
        LET st == removeConnection(schema, c)
        IN d # c =>
            /\ EntriesOf(st.connectedProfiles, {d})
                  = EntriesOf(schema.connectedProfiles, {d})
            /\ EntriesOf(st.databases, {d}) = EntriesOf(schema.databases, {d})
            /\ \A k \in KeysUnder(schema.tables, d) :
                  Has(st.tables, k) /\ st.tables[k] = schema.tables[k]
            /\ \A k \in KeysUnder(schema.columns, d) :
                  Has(st.columns, k) /\ st.columns[k] = schema.columns[k]
            /\ \A k \in ErrorKeysOf(schema.errors, d) :
                  Has(st.errors, k) /\ st.errors[k] = schema.errors[k]

\* "p1" has just been removed while "p10", whose id begins with "p1", is
\* connected and has databases, tables, columns and an error in the store
C29_Witness ==
    /\ last = "removeConnection"
    /\ ~Has(schema.connectedProfiles, "p1")
    /\ ~Has(schema.databases, "p1")
    /\ Has(schema.connectedProfiles, "p10")
    /\ Has(schema.databases, "p10")
    /\ Has(schema.tables, "p10::a")
    /\ Has(schema.columns, "p10::a::t")
    /\ Has(schema.errors, "tbl-p10::a")

\* cache keys and error keys the callers pass, and one of each not in use
KeyArgs == {"p1", "p10", "p1::a", "p10::a::t", "p2"}
ErrorKeyArgs == {"dbs-p1", "dbs-p10", "tbl-p1::a", "tbl-p10::a", "dbs-p2"}

\* new differs from st at most in the entry of key in the map named field
WritesOnly(st, new, field, key) ==
    /\ \A g \in DOMAIN st \ {field} : new[g] = st[g]
    /\ Del(new[field], key) = Del(st[field], key)

\* C31: each of the six setters changes only the entry of the key it is
\* given, in the one map it addresses (for setLoading the loading map of the
\* kind), and leaves that entry with the value given (clearError: absent); a
\* second identical call gives the state the first one gave.
C31_SettersScopedIdempotent ==
    /\ \A key \in KeyArgs, kind \in Kinds, loading \in BOOLEAN :
          LET st == setLoading(schema, key, kind, loading)
              field == IF kind = "databases" THEN "loadingDatabases"
                       ELSE IF kind = "tables" THEN "loadingTables"
                       ELSE "loadingColumns"
          IN /\ WritesOnly(schema, st, field, key)
             /\ Has(st[field], key) /\ st[field][key] = loading
             /\ setLoading(st, key, kind, loading) = st
    /\ \A c \in TwoProfiles \cup {"p2"}, dbs \in DbLists :
          LET st == setDatabases(schema, c, dbs)
          IN /\ WritesOnly(schema, st, "databases", c)
             /\ Has(st.databases, c) /\ st.databases[c] = dbs
             /\ setDatabases(st, c, dbs) = st
    /\ \A c \in TwoProfiles \cup {"p2"}, tbls \in TableLists :
          LET st == setTables(schema, c, "a", tbls)
              key == c \o "::a"
          IN /\ WritesOnly(schema, st, "tables", key)
             /\ Has(st.tables, key) /\ st.tables[key] = tbls
             /\ setTables(st, c, "a", tbls) = st
    /\ \A c \in TwoProfiles \cup {"p2"}, cols \in ColumnLists :
          LET st == setColumns(schema, c, "a", "t", cols)
              key == c \o "::a::t"
          IN /\ WritesOnly(schema, st, "columns", key)
             /\ Has(st.columns, key) /\ st.columns[key] = cols
             /\ setColumns(st, c, "a", "t", cols) = st
    /\ \A key \in ErrorKeyArgs, text \in ErrorTexts \cup {"F"} :
          LET st == setError(schema, key, text)
          IN /\ WritesOnly(schema, st, "errors", key)
             /\ Has(st.errors, key) /\ st.errors[key] = text
             /\ setError(st, key, text) = st
    /\ \A key \in ErrorKeyArgs :
          LET st == clearError(schema, key)
          IN /\ WritesOnly(schema, st, "errors", key)
             /\ ~Has(st.errors, key)
             /\ clearError(st, key) = st

\* a store in which the setters have written several keys: two errors, two
\* database lists, a table list and a loading flag
C31_Witness ==
    /\ Cardinality(DOMAIN schema.errors) >= 2
    /\ Has(schema.databases, "p1")
    /\ Has(schema.databases, "p10")
    /\ Has(schema.tables, "p1::a")
    /\ Has(schema.loadingDatabases, "p1")

----------------------------------------------------------------------------
(* Connection lifecycle: the handlers of ServersSidebar and of the explorer *)
(* that connect, disconnect and delete a profile, with their awaited calls  *)

\* useProfilesStore operations; a profile is its connectionStatus here
setConnectionStatus(ps, id, status) ==
    [p \in DOMAIN ps |-> IF p = id THEN status ELSE ps[p]]

deleteProfile(ps, id) == Del(ps, id)

\* ServersSidebar.handleConnect up to its await; also reached by a double
\* click on the card while the profile is not connected
HandleConnect ==
    \E c \in ProfileIds :
        /\ Has(profiles, c)
        /\ Cardinality(pending) < MaxPending
        /\ IF profiles[c] = "connected"
           THEN /\ pending' = pending \cup
                                {Fetch("dbDisconnect", "handleConnect", c, "", "")}
                /\ UNCHANGED profiles
           ELSE /\ profiles' = setConnectionStatus(profiles, c, "connecting")
                /\ pending' = pending \cup
                                {Fetch("dbConnect", "handleConnect", c, "", "")}
        /\ last' = "handleConnect"
        /\ UNCHANGED <<layoutVars, schema, expanded, sash>>

\* ServersSidebar.handleDelete up to its await
HandleDelete ==
    \E c \in ProfileIds :
        /\ Has(profiles, c)
        /\ Cardinality(pending) < MaxPending
        /\ pending' = pending \cup
                        {Fetch("dbDisconnect", "handleDelete", c, "", "")}
        /\ last' = "handleDelete"
        /\ UNCHANGED <<layoutVars, schema, expanded, sash, profiles>>

\* handleDisconnect of the explorer's server context menu up to its await
HandleDisconnect ==
    \E c \in ProfileIds :
        /\ Has(profiles, c)
        /\ Has(schema.connectedProfiles, c)
        /\ Cardinality(pending) < MaxPending
        /\ pending' = pending \cup
                        {Fetch("dbDisconnect", "handleDisconnect", c, "", "")}
        /\ last' = "handleDisconnect"
        /\ UNCHANGED <<layoutVars, schema, expanded, sash, profiles>>

\* dbConnect resolves: the rest of handleConnect's try block
ConnectResolves ==
    \E f \in pending :
        /\ f.kind = "dbConnect"
        /\ profiles' = setConnectionStatus(profiles, f.profileId, "connected")
        /\ schema' = addConnection(schema, f.profileId, "P", "blue")
        /\ pending' = pending \ {f}
        /\ last' = "connected"
        /\ UNCHANGED <<layoutVars, expanded, sash>>

\* dbConnect rejects: handleConnect's catch block
ConnectRejects ==
    \E f \in pending :
        /\ f.kind = "dbConnect"
        /\ profiles' = setConnectionStatus(profiles, f.profileId, "error")
        /\ pending' = pending \ {f}
        /\ last' = "connectFailed"
        /\ UNCHANGED <<layoutVars, schema, expanded, sash>>

\* dbDisconnect settles, resolved or rejected alike (`catch { /* ignore */ }`):
\* the rest of the handler that awaited it
DisconnectSettles ==
    \E f \in pending :
        /\ f.kind = "dbDisconnect"
        /\ profiles' = IF f.handler = "handleDelete"
                       THEN deleteProfile(profiles, f.profileId)
                       ELSE setConnectionStatus(profiles, f.profileId,
                                                "disconnected")
        /\ schema' = removeConnection(schema, f.profileId)
        /\ pending' = pending \ {f}
        /\ last' = "disconnected"
        /\ UNCHANGED <<layoutVars, expanded, sash>>

NextConn ==
    \/ HandleConnect
    \/ HandleDelete
    \/ HandleDisconnect
    \/ ConnectResolves
    \/ ConnectRejects
    \/ DisconnectSettles

SpecConn == Init /\ [][NextConn]_vars

\* C38: connectedProfiles holds an id only while a profile with that id
\* exists and its connectionStatus is "connected".
C38_ConnectedProfilesMatch ==
    \A c \in DOMAIN schema.connectedProfiles :
        Has(profiles, c) /\ profiles[c] = "connected"

----------------------------------------------------------------------------
(* Dragging a Sash with two pointers (two fingers, or pen and touch) *)

Pointers == {1, 2}

\* a pointer that is up goes down on a Sash: on the Sash being dragged when
\* its listeners are registered, else on the Sash of any Node
TouchDown ==
    \E p \in Pointers \ sash.pointers, x \in Coords, y \in Coords :
        /\ \/ /\ sash.listening
              /\ sash' = [handlePointerDownAgain(sash, x, y)
                            EXCEPT !.pointers = @ \cup {p}]
           \/ /\ ~sash.listening
              /\ \E node \in Range(NodeSeq(editorTree)) :
                    sash' = [handlePointerDown(sash, node.id, node.direction, x, y)
                               EXCEPT !.pointers = @ \cup {p}]
        /\ UNCHANGED <<layoutVars, cacheVars, last, profiles>>

\* a pointer moves: every registered onPointerMove runs, each calls onDrag
TouchMove ==
    \E x \in Coords, y \in Coords, container \in Containers :
        LET first == IF moveRuns(sash)
                     THEN onDrag(editorTree, sash.node,
                                 moveDelta(sash, x, y), container)
                     ELSE editorTree
            second == IF sash.listening2 /\ sash.isDragging
                      THEN onDrag(first, sash.node,
                                  moveDelta2(sash, x, y), container)
                      ELSE first
        IN /\ sash.pointers # {}
           /\ sash' = dispatchPointerMove(sash, x, y)
           /\ editorTree' = second
           /\ last' = Effect("onDrag")
           /\ UNCHANGED <<nextUuid, cacheVars, profiles>>

\* a pointer that is down goes up
TouchUp ==
    \E p \in sash.pointers :
        /\ sash' = [dispatchPointerUp(sash) EXCEPT !.pointers = @ \ {p}]
        /\ UNCHANGED <<layoutVars, cacheVars, last, profiles>>

NextTouch ==
    \/ SplitLeaf
    \/ TouchDown
    \/ TouchMove
    \/ TouchUp

SpecTouch == Init /\ [][NextTouch]_vars

\* C40: a pointer-move event leads to at most one onDrag call of a Sash, also
\* after a second pointer-down on the Sash before the first pointer's up, and
\* a pointer-up leaves none of the Sash's move and up listeners registered.
C40_OneDragCallPerMove ==
    /\ moveCalls(sash) <= 1
    /\ LET s == dispatchPointerUp(sash)
       IN ~s.listening /\ ~s.listening2

====
